---- MODULE Spec2Model ----
(***************************************************************************)
(* CluesWord: the puzzle state machine (GameState), its guess evaluator,   *)
(* the scoring function, the synchronous local StorageManager, the bridge  *)
(* StorageManager of the Reddit webview and the Devvit message handlers.   *)
(*                                                                         *)
(* Strings are sequences of one-character strings.  A JavaScript value     *)
(* that may be null is a sequence of length at most one: <<>> is null and  *)
(* <<v>> is the value v.  A JavaScript Set is [Set |-> s] with s the       *)
(* sequence of its elements in insertion order.  A date string             *)
(* (YYYY-MM-DD, UTC) is the number of the UTC day it names.                *)
(*                                                                         *)
(* written is a history variable: for each key, the value of the session's *)
(* latest set(key, value) on the bridge store, null before the first set   *)
(* and after remove(key).                                                  *)
(***************************************************************************)
EXTENDS Integers, Sequences, FiniteSets, TLC

VARIABLES currentPuzzle, currentState, isDaily, storage, today, lastCall, lastResult,
          cache, pendingReads, toDevvit, toWebview, redis,
          bridgeState, bridgeResult, sharing, written,
          handlers, reddit

vars == <<currentPuzzle, currentState, isDaily, storage, today, lastCall, lastResult,
          cache, pendingReads, toDevvit, toWebview, redis,
          bridgeState, bridgeResult, sharing, written,
          handlers, reddit>>

bridgeVars == <<cache, pendingReads, toDevvit, toWebview, redis,
                bridgeState, bridgeResult, sharing, written,
                handlers, reddit>>

gameVars == <<currentPuzzle, currentState, isDaily, storage, today>>

(***************************************************************************)
(* Bounds of the model                                                     *)
(***************************************************************************)
MaxLen == 3

MaxTries == 20

MaxPlayed == 1

(***************************************************************************)
(* JavaScript values                                                       *)
(***************************************************************************)
Null == <<>>

Some(v) == <<v>>

Val(x) == x[1]

Range(s) == {s[i] : i \in 1..Len(s)}

Max(a, b) == IF a >= b THEN a ELSE b

includes(arr, x) == \E i \in 1..Len(arr) : arr[i] = x

indexOf(arr, x) ==
  IF includes(arr, x)
    THEN (CHOOSE i \in 1..Len(arr) : arr[i] = x /\ \A j \in 1..(i-1) : arr[j] # x) - 1
    ELSE -1

unshift(arr, x) == <<x>> \o arr

push(arr, x) == Append(arr, x)

RECURSIVE Dedupe(_)
Dedupe(arr) ==
  IF arr = <<>> THEN <<>>
  ELSE LET front == Dedupe(SubSeq(arr, 1, Len(arr) - 1))
           x == arr[Len(arr)]
       IN IF includes(front, x) THEN front ELSE Append(front, x)

NewSet(arr) == [Set |-> Dedupe(arr)]

SetAdd(s, x) == IF includes(s.Set, x) THEN s ELSE [Set |-> Append(s.Set, x)]

ArrayFrom(s) == s.Set

JSONStringify(v) == [json |-> v]

JSONParse(item) == item.json

(***************************************************************************)
(* Strings                                                                 *)
(***************************************************************************)
LowerCase == <<"a", "b", "c", "d", "h", "i", "j", "n", "p">>

UpperCase == <<"A", "B", "C", "D", "H", "I", "J", "N", "P">>

Separators == {" ", "-"}

Whitespace == {" "}

toUpperCaseChar(c) ==
  IF includes(LowerCase, c) THEN UpperCase[indexOf(LowerCase, c) + 1] ELSE c

toUpperCase(s) == [i \in 1..Len(s) |-> toUpperCaseChar(s[i])]

RECURSIVE trim(_)
trim(s) ==
  IF s = <<>> THEN s
  ELSE IF s[1] \in Whitespace THEN trim(Tail(s))
  ELSE IF s[Len(s)] \in Whitespace THEN trim(SubSeq(s, 1, Len(s) - 1))
  ELSE s

stripSeparators(s) == SelectSeq(s, LAMBDA c : c \notin Separators)

(***************************************************************************)
(* Utils: constants and calculateScore                                     *)
(***************************************************************************)
MAX_CLUES == 3

ONE_CLUE == 100

TWO_CLUES == 85

THREE_CLUES == 70

ALL_CLUES == 50

PENALTY_PER_WRONG_GUESS == 5

MIN_SCORE == 10

calculateScoreNoFloor(cluesUsed, totalTries) ==
  LET baseScore == CASE cluesUsed = 1 -> ONE_CLUE
                     [] cluesUsed = 2 -> TWO_CLUES
                     [] cluesUsed = 3 -> THREE_CLUES
                     [] OTHER -> ALL_CLUES
  IN baseScore - Max(0, totalTries - 1) * PENALTY_PER_WRONG_GUESS

calculateScore(cluesUsed, totalTries) ==
  LET baseScore == CASE cluesUsed = 1 -> ONE_CLUE
                     [] cluesUsed = 2 -> TWO_CLUES
                     [] cluesUsed = 3 -> THREE_CLUES
                     [] OTHER -> ALL_CLUES
      wrongGuesses == Max(0, totalTries - 1)
      penalty == wrongGuesses * PENALTY_PER_WRONG_GUESS
  IN Max(MIN_SCORE, baseScore - penalty)

(***************************************************************************)
(* GameState.evaluateGuess                                                 *)
(***************************************************************************)
JsNull == "null"

firstPassOneBased(guessLetters, targetLetters) ==
  [result |-> [i \in 1..Len(guessLetters) |->
                 IF i <= Len(targetLetters) /\ guessLetters[i] = targetLetters[i]
                   THEN Some([letter |-> guessLetters[i], status |-> "correct", position |-> i])
                   ELSE Null],
   targetCopy |-> [i \in 1..Len(targetLetters) |->
                 IF i <= Len(guessLetters) /\ guessLetters[i] = targetLetters[i]
                   THEN JsNull
                   ELSE targetLetters[i]]]

firstPass(guessLetters, targetLetters) ==
  [result |-> [i \in 1..Len(guessLetters) |->
                 IF i <= Len(targetLetters) /\ guessLetters[i] = targetLetters[i]
                   THEN Some([letter |-> guessLetters[i], status |-> "correct", position |-> i - 1])
                   ELSE Null],
   targetCopy |-> [i \in 1..Len(targetLetters) |->
                 IF i <= Len(guessLetters) /\ guessLetters[i] = targetLetters[i]
                   THEN JsNull
                   ELSE targetLetters[i]]]

RECURSIVE secondPassNoConsume(_, _, _, _)
secondPassNoConsume(guessLetters, targetCopy, result, i) ==
  IF i > Len(guessLetters) THEN result
  ELSE IF result[i] # Null THEN secondPassNoConsume(guessLetters, targetCopy, result, i + 1)
  ELSE secondPassNoConsume(guessLetters, targetCopy,
         [result EXCEPT ![i] =
            Some([letter |-> guessLetters[i],
                  status |-> IF indexOf(targetCopy, guessLetters[i]) # -1
                               THEN "wrongPosition" ELSE "wrong",
                  position |-> i - 1])],
         i + 1)

RECURSIVE secondPass(_, _, _, _)
secondPass(guessLetters, targetCopy, result, i) ==
  IF i > Len(guessLetters) THEN result
  ELSE IF result[i] # Null THEN secondPass(guessLetters, targetCopy, result, i + 1)
  ELSE LET letter == guessLetters[i]
           targetIndex == indexOf(targetCopy, letter)
       IN IF targetIndex # -1
            THEN secondPass(guessLetters,
                            [targetCopy EXCEPT ![targetIndex + 1] = JsNull],
                            [result EXCEPT ![i] =
                               Some([letter |-> letter, status |-> "wrongPosition", position |-> i - 1])],
                            i + 1)
            ELSE secondPass(guessLetters, targetCopy,
                            [result EXCEPT ![i] =
                               Some([letter |-> letter, status |-> "wrong", position |-> i - 1])],
                            i + 1)

evaluateGuess(guess, target) ==
  LET targetLetters == stripSeparators(toUpperCase(target))
      guessLetters == toUpperCase(guess)
      pass1 == firstPass(guessLetters, targetLetters)
      result == secondPass(guessLetters, pass1.targetCopy, pass1.result, 1)
  IN [i \in 1..Len(guessLetters) |-> Val(result[i])]

(***************************************************************************)
(* StorageManager over localStorage (the synchronous local store)          *)
(***************************************************************************)
DAILY_STATE == "cluesword_daily_state"

QUICKPLAY_STATE == "cluesword_quickplay_state"

STATS == "cluesword_stats"

SETTINGS == "cluesword_settings"

PLAYED_PUZZLES == "cluesword_played_puzzles"

COMPLETED_DAILIES == "cluesword_completed_dailies"

STORAGE_KEYS ==
  {DAILY_STATE, QUICKPLAY_STATE, STATS, SETTINGS, PLAYED_PUZZLES, COMPLETED_DAILIES}

EmptyStorage == [k \in STORAGE_KEYS |-> Null]

\* localStorage is the function from keys to items, or, where its methods
\* may throw (storage quota, storage disabled), the record
\* [items, getItem, setItem, removeItem, thrown]: getItem, setItem and
\* removeItem are the keys for which that method throws at present, thrown
\* is the exception that has escaped a StorageManager call (null: none).
isThrowing(st) == "items" \in DOMAIN st

itemsOf(st) == IF isThrowing(st) THEN st.items ELSE st

withItems(st, items) == IF isThrowing(st) THEN [st EXCEPT !.items = items] ELSE items

throws(st, method, key) == isThrowing(st) /\ key \in st[method]

QuotaExceeded == <<"QuotaExceededError">>

\* get, set and remove catch what localStorage throws: get answers null,
\* set and remove leave the items as they are.
getLocal(st, key) ==
  IF throws(st, "getItem", key) THEN Null
  ELSE IF itemsOf(st)[key] # Null THEN Some(JSONParse(Val(itemsOf(st)[key]))) ELSE Null

setLocalUncaught(st, key, value) ==
  IF throws(st, "setItem", key) THEN [st EXCEPT !.thrown = Some(QuotaExceeded)]
  ELSE withItems(st, [itemsOf(st) EXCEPT ![key] = Some(JSONStringify(value))])

setLocal(st, key, value) ==
  IF throws(st, "setItem", key) THEN st
  ELSE withItems(st, [itemsOf(st) EXCEPT ![key] = Some(JSONStringify(value))])

removeLocal(st, key) ==
  IF throws(st, "removeItem", key) THEN st
  ELSE withItems(st, [itemsOf(st) EXCEPT ![key] = Null])

(***************************************************************************)
(* StorageManager of the Reddit webview (the bridge store).  The store is  *)
(* the record [cache, posted]: the mirror and the messages handed to       *)
(* parent.postMessage so far.  Every value the game stores is an object or *)
(* an array, so 'cache[key] || null' is the cached value when there is one.*)
(***************************************************************************)
sendMessage(posted, msg) == Append(posted, msg)

getBridge(st, key) == IF st.cache[key] # Null THEN st.cache[key] ELSE Null

setBridge(st, key, value) ==
  [cache |-> [st.cache EXCEPT ![key] = Some(value)],
   posted |-> sendMessage(st.posted, [type |-> "setGameState", key |-> key,
                                      value |-> JSONStringify(value)])]

removeBridge(st, key) ==
  [cache |-> [st.cache EXCEPT ![key] = Null],
   posted |-> sendMessage(st.posted, [type |-> "removeGameState", key |-> key])]

(***************************************************************************)
(* StorageManager as the game sees it: the page loads one of the two       *)
(* store scripts, and the domain methods below are the same in both.       *)
(***************************************************************************)
isBridge(st) == "cache" \in DOMAIN st

get(st, key) == IF isBridge(st) THEN getBridge(st, key) ELSE getLocal(st, key)

set(st, key, value) ==
  IF isBridge(st) THEN setBridge(st, key, value) ELSE setLocal(st, key, value)

remove(st, key) == IF isBridge(st) THEN removeBridge(st, key) ELSE removeLocal(st, key)

getDailyState(st) == get(st, DAILY_STATE)

saveDailyState(st, state) == set(st, DAILY_STATE, state)

getQuickPlayState(st) == get(st, QUICKPLAY_STATE)

saveQuickPlayState(st, state) == set(st, QUICKPLAY_STATE, state)

clearQuickPlayState(st) == remove(st, QUICKPLAY_STATE)

Spread(a, b) == [f \in DOMAIN a \cup DOMAIN b |-> IF f \in DOMAIN b THEN b[f] ELSE a[f]]

defaultStats ==
  [played |-> 0, won |-> 0, currentStreak |-> 0, maxStreak |-> 0,
   totalScore |-> 0, bestScore |-> 0, lastPlayedDate |-> Null,
   clueDistribution |-> [c \in 1..3 |-> 0], categoryStats |-> <<>>]

getStats(st) ==
  LET stats == get(st, STATS)
  IN IF stats # Null THEN Spread(defaultStats, Val(stats)) ELSE defaultStats

saveStats(st, stats) == set(st, STATS, stats)

getDateString(day) == day

\* isYesterday steps back one local calendar day at the same wall-clock time
\* (setDate(getDate() - 1)) and formats the result in UTC.  Across a
\* daylight-saving change that step is 23 or 25 hours, not 24: for a clock
\* reading shortly after UTC midnight on the day the clocks went back, the
\* formatted date is two UTC days before the reading, not one.  ClockChangeDay
\* is the UTC day on which the player's clock is read in that hour.
ClockChangeDay == 2

daylightShift(day) == IF day = ClockChangeDay THEN 0 - 1 ELSE 0

isYesterdayUTC(day, dateString) == getDateString(day - 1) = dateString

isYesterday(day, dateString) == getDateString(day - 1 + daylightShift(day)) = dateString

isToday(day, dateString) == getDateString(day) = dateString

updateStreak(stats, day) ==
  IF stats.lastPlayedDate # Null
    THEN IF isYesterday(day, Val(stats.lastPlayedDate)) THEN stats.currentStreak + 1
         ELSE IF ~isToday(day, Val(stats.lastPlayedDate)) THEN 1
         ELSE stats.currentStreak
    ELSE 1

updateStats(st, day, cluesUsed, score, category, won) ==
  LET stats == getStats(st)
      streak == updateStreak(stats, day)
      cats == IF category \in DOMAIN stats.categoryStats
                THEN stats.categoryStats
                ELSE stats.categoryStats @@ (category :> [played |-> 0, totalScore |-> 0])
      wonStats ==
        [played |-> stats.played + 1,
         won |-> stats.won + 1,
         totalScore |-> stats.totalScore + score,
         bestScore |-> Max(stats.bestScore, score),
         clueDistribution |->
           IF cluesUsed \in DOMAIN stats.clueDistribution
             THEN [stats.clueDistribution EXCEPT ![cluesUsed] = @ + 1]
             ELSE stats.clueDistribution,
         currentStreak |-> streak,
         maxStreak |-> Max(stats.maxStreak, streak),
         categoryStats |->
           [cats EXCEPT ![category] =
              [played |-> @.played + 1, totalScore |-> @.totalScore + score]],
         lastPlayedDate |-> Some(getDateString(day))]
      playedStats ==
        [played |-> stats.played + 1, won |-> stats.won,
         totalScore |-> stats.totalScore, bestScore |-> stats.bestScore,
         clueDistribution |-> stats.clueDistribution,
         currentStreak |-> stats.currentStreak, maxStreak |-> stats.maxStreak,
         categoryStats |-> stats.categoryStats,
         lastPlayedDate |-> Some(getDateString(day))]
  IN saveStats(st, IF won THEN wonStats ELSE playedStats)

getPlayedPuzzles(st) ==
  IF get(st, PLAYED_PUZZLES) # Null THEN Val(get(st, PLAYED_PUZZLES)) ELSE <<>>

addPlayedPuzzle(st, puzzleId) ==
  LET played == getPlayedPuzzles(st)
  IN IF ~includes(played, puzzleId)
       THEN set(st, PLAYED_PUZZLES, push(played, puzzleId))
       ELSE st

getCompletedDailies(st) ==
  IF get(st, COMPLETED_DAILIES) # Null THEN Val(get(st, COMPLETED_DAILIES)) ELSE <<>>

addCompletedDaily(st, puzzleId) ==
  LET completed == getCompletedDailies(st)
  IN IF ~includes(completed, puzzleId)
       THEN set(st, COMPLETED_DAILIES, push(completed, puzzleId))
       ELSE st

Holders == {"state", DAILY_STATE, QUICKPLAY_STATE}

Unshared == {{h} : h \in Holders}

\* The bridge store, the message channels and the remote store as they are
\* when the webview script has just been evaluated and nothing is persisted.
BridgeIdle ==
  /\ cache = EmptyStorage
  /\ pendingReads = [k \in STORAGE_KEYS |-> <<>>]
  /\ toDevvit = <<>>
  /\ toWebview = <<>>
  /\ redis = [state |-> EmptyStorage, userstats |-> Null, score |-> Null,
              playcount |-> 0, puzzlestats |-> Null, leaderboard |-> Null,
              dailySchedule |-> [subreddit |-> Null, jobId |-> Null, lastDate |-> Null]]
  /\ handlers = <<>>
  /\ reddit = [posts |-> <<>>, jobs |-> {}, scheduled |-> 0]
  /\ bridgeState = Null
  /\ bridgeResult = Null
  /\ sharing = [guesses |-> Unshared, correctPositions |-> Unshared]
  /\ written = EmptyStorage

(***************************************************************************)
(* The puzzles and the raw guesses the player types                        *)
(***************************************************************************)
INDIA == <<"I", "N", "D", "I", "A">>

CHINA == <<"C", "H", "I", "N", "A">>

JAPAN == <<"J", "A", "P", "A", "N">>

Puzzles ==
  {[id |-> "daily-001", category |-> "Countries", word |-> INDIA],
   [id |-> "qp-movies-001", category |-> "Movies", word |-> <<"A", "-", "B">>]}

GuessInputs ==
  {CHINA, JAPAN, INDIA,
   <<"D", "I", "N", "A", "H">>,
   <<"c", "h", "i", "n", "a">>,
   <<"J", "A", "P", "A", "N", " ">>,
   <<"A", "A">>, <<"A", "B">>, <<" ", "a", "a">>,
   <<"A", "-", "B">>}

(***************************************************************************)
(* GameState                                                               *)
(***************************************************************************)
createInitialState(puzzle, date) ==
  [puzzleId |-> puzzle.id,
   date |-> date,
   guesses |-> <<>>,
   cluesRevealed |-> 1,
   correctPositions |-> <<>>,
   wrongPositionLetters |-> NewSet(<<>>),
   status |-> "in-progress",
   score |-> 0]

saveStateDailySlotOnly(st, state, daily) ==
  IF state = Null THEN st
  ELSE saveDailyState(st, [Val(state) EXCEPT !.wrongPositionLetters =
                                            ArrayFrom(Val(state).wrongPositionLetters)])

saveStateBothSlots(st, state, daily) ==
  IF state = Null THEN st
  ELSE LET stateToSave ==
             [Val(state) EXCEPT !.wrongPositionLetters = ArrayFrom(Val(state).wrongPositionLetters)]
       IN saveQuickPlayState(saveDailyState(st, stateToSave), stateToSave)

saveState(st, state, daily) ==
  IF state = Null THEN st
  ELSE LET stateToSave ==
             [Val(state) EXCEPT !.wrongPositionLetters = ArrayFrom(Val(state).wrongPositionLetters)]
       IN IF daily THEN saveDailyState(st, stateToSave)
                   ELSE saveQuickPlayState(st, stateToSave)

restoreStateScoreless(savedState) ==
  [savedState EXCEPT !.wrongPositionLetters = NewSet(savedState.wrongPositionLetters),
                     !.score = 0]

restoreState(savedState) ==
  [savedState EXCEPT !.wrongPositionLetters = NewSet(savedState.wrongPositionLetters)]

normalizeGuess(guess) == trim(toUpperCase(guess))

targetWordWithSeparators(puzzle) == toUpperCase(puzzle.word)

targetWordOf(puzzle) == stripSeparators(toUpperCase(puzzle.word))

FailureThrown(error) == [thrown |-> error]

Failure(error) == [success |-> FALSE, error |-> error]

NotInitialized == <<"Game not initialized">>

AlreadyWon == <<"Game already completed">>

LengthMismatch(len) == <<"Guess must be ", len, " letters">>

DuplicateGuess == <<"Already guessed">>

revealNextClueUncapped(cluesRevealed) == cluesRevealed + 1

revealNextClue(cluesRevealed) ==
  IF cluesRevealed < MAX_CLUES THEN cluesRevealed + 1 ELSE cluesRevealed

RECURSIVE recordEvaluation(_, _, _)
recordEvaluation(state, evaluation, index) ==
  IF index > Len(evaluation) THEN state
  ELSE LET item == evaluation[index]
           s1 == IF item.status = "correct" /\ ~includes(state.correctPositions, index - 1)
                   THEN [state EXCEPT !.correctPositions = push(@, index - 1)]
                   ELSE state
           s2 == IF item.status = "wrongPosition"
                   THEN [s1 EXCEPT !.wrongPositionLetters = SetAdd(@, item.letter)]
                   ELSE s1
       IN recordEvaluation(s2, evaluation, index + 1)

wrongGuessStateLatestOnly(state, evaluation) ==
  LET recorded == recordEvaluation([state EXCEPT !.correctPositions = <<>>], evaluation, 1)
  IN [recorded EXCEPT !.cluesRevealed = revealNextClue(@)]

wrongGuessState(state, evaluation) ==
  LET recorded == recordEvaluation(state, evaluation, 1)
  IN [recorded EXCEPT !.cluesRevealed = revealNextClue(@)]

wonStateBeforePush(state, targetWord) ==
  [state EXCEPT !.status = "won",
                !.score = calculateScore(state.cluesRevealed, Len(state.guesses) - 1),
                !.correctPositions = [i \in 1..Len(targetWord) |-> i - 1]]

wonStateHintsKept(state, targetWord) ==
  [state EXCEPT !.status = "won",
                !.score = calculateScore(state.cluesRevealed, Len(state.guesses))]

wonState(state, targetWord) ==
  [state EXCEPT !.status = "won",
                !.score = calculateScore(state.cluesRevealed, Len(state.guesses)),
                !.correctPositions = [i \in 1..Len(targetWord) |-> i - 1]]

trackCompletedBoth(st, daily, puzzleId) ==
  addPlayedPuzzle(addCompletedDaily(st, puzzleId), puzzleId)

trackCompleted(st, daily, puzzleId) ==
  IF daily THEN addCompletedDaily(st, puzzleId) ELSE addPlayedPuzzle(st, puzzleId)

alreadyCompletedNever(state) == FALSE

alreadyCompleted(state) == state.status = "won"

lengthMismatchLonger(normalizedGuess, targetWord) == Len(normalizedGuess) > Len(targetWord)

lengthMismatch(normalizedGuess, targetWord) == Len(normalizedGuess) # Len(targetWord)

alreadyGuessedLast(state, normalizedGuess) ==
  state.guesses # <<>> /\ state.guesses[Len(state.guesses)] = normalizedGuess

alreadyGuessed(state, normalizedGuess) == includes(state.guesses, normalizedGuess)

SuccessResult(state, isCorrect, evaluation) ==
  [success |-> TRUE,
   isCorrect |-> isCorrect,
   evaluation |-> evaluation,
   cluesRevealed |-> state.cluesRevealed,
   correctPositions |-> state.correctPositions,
   wrongPositionLetters |-> ArrayFrom(state.wrongPositionLetters),
   score |-> state.score,
   status |-> state.status]

\* Initialize is taken with the arguments its callers pass: no saved state
\* in either mode, or the persisted daily slot in daily mode.  Its first
\* conjunct bounds the statistics counters: an attempt that can still be
\* won is started only while fewer than MaxPlayed games have been counted.
canRestoreAny(puzzle, savedState) == savedState # Null

canRestore(puzzle, savedState) ==
  savedState # Null /\ Val(savedState).puzzleId = puzzle.id

initialize(puzzle, savedState, daily, st, day) ==
  IF canRestore(puzzle, savedState)
    THEN [state |-> Some(restoreState(Val(savedState))), storage |-> st]
    ELSE LET fresh == Some(createInitialState(puzzle, getDateString(day)))
         IN [state |-> fresh, storage |-> saveState(st, fresh, daily)]

Initialize(puzzle, savedState, daily) ==
  LET outcome == initialize(puzzle, savedState, daily, storage, today)
  IN /\ \/ getStats(storage).played < MaxPlayed
        \/ savedState # Null /\ Val(savedState).puzzleId = puzzle.id /\ Val(savedState).status = "won"
     /\ currentPuzzle' = Some(puzzle)
     /\ isDaily' = daily
     /\ currentState' = outcome.state
     /\ storage' = outcome.storage
     /\ lastCall' = [op |-> "initialize", puzzle |-> puzzle.id,
                     restore |-> savedState # Null, daily |-> daily]
     /\ lastResult' = currentState'
     /\ UNCHANGED today
     /\ UNCHANGED bridgeVars

submitGuess(puzzle, state, daily, st, day, guess) ==
  IF puzzle = Null \/ state = Null
    THEN [state |-> state, storage |-> st, result |-> Failure(NotInitialized)]
  ELSE IF alreadyCompleted(Val(state))
    THEN [state |-> state, storage |-> st, result |-> Failure(AlreadyWon)]
  ELSE LET normalizedGuess == normalizeGuess(guess)
           targetWord == targetWordOf(Val(puzzle))
       IN IF lengthMismatch(normalizedGuess, targetWord)
            THEN [state |-> state, storage |-> st,
                  result |-> Failure(LengthMismatch(Len(targetWord)))]
          ELSE IF alreadyGuessed(Val(state), normalizedGuess)
            THEN [state |-> state, storage |-> st, result |-> Failure(DuplicateGuess)]
          ELSE LET evaluation == evaluateGuess(normalizedGuess, targetWord)
                   pushed == [Val(state) EXCEPT !.guesses = push(@, normalizedGuess)]
                   isCorrect == normalizedGuess = targetWord
                   newState == IF isCorrect THEN wonState(pushed, targetWord)
                               ELSE wrongGuessState(pushed, evaluation)
                   tracked ==
                     IF isCorrect
                       THEN trackCompleted(
                              updateStats(st, day, newState.cluesRevealed,
                                          newState.score, Val(puzzle).category, TRUE),
                              daily, Val(puzzle).id)
                       ELSE st
               IN [state |-> Some(newState),
                   storage |-> saveState(tracked, Some(newState), daily),
                   result |-> SuccessResult(newState, isCorrect, evaluation)]

SubmitGuess(guess) ==
  LET outcome == submitGuess(currentPuzzle, currentState, isDaily, storage, today, guess)
  IN /\ currentState' = outcome.state
     /\ storage' = outcome.storage
     /\ lastResult' = Some(outcome.result)
     /\ lastCall' = [op |-> "submitGuess", guess |-> guess]
     /\ UNCHANGED <<currentPuzzle, isDaily, today>>
     /\ UNCHANGED bridgeVars

ResetAnyMode ==
  /\ currentPuzzle' = Null
  /\ currentState' = Null
  /\ storage' = clearQuickPlayState(storage)
  /\ lastCall' = [op |-> "reset"]
  /\ lastResult' = Null
  /\ UNCHANGED <<isDaily, today>>
  /\ UNCHANGED bridgeVars

Reset ==
  /\ currentPuzzle' = Null
  /\ currentState' = Null
  /\ storage' = IF ~isDaily THEN clearQuickPlayState(storage) ELSE storage
  /\ lastCall' = [op |-> "reset"]
  /\ lastResult' = Null
  /\ UNCHANGED <<isDaily, today>>
  /\ UNCHANGED bridgeVars

PageLoad ==
  /\ currentPuzzle' = Null
  /\ currentState' = Null
  /\ isDaily' = TRUE
  /\ lastCall' = [op |-> "load"]
  /\ lastResult' = Null
  /\ UNCHANGED <<storage, today>>
  /\ UNCHANGED bridgeVars

Init ==
  /\ currentPuzzle = Null
  /\ currentState = Null
  /\ isDaily = TRUE
  /\ storage = EmptyStorage
  /\ today = 0
  /\ lastCall = [op |-> "load"]
  /\ lastResult = Null
  /\ BridgeIdle

InitializeFresh == \E puzzle \in Puzzles, daily \in BOOLEAN : Initialize(puzzle, Null, daily)

InitializeFromDailySlot == \E puzzle \in Puzzles : Initialize(puzzle, getDailyState(storage), TRUE)

Submit == \E guess \in GuessInputs : SubmitGuess(guess)

Next ==
  \/ InitializeFresh
  \/ InitializeFromDailySlot
  \/ Submit
  \/ Reset
  \/ PageLoad

Spec == Init /\ [][Next]_vars

(***************************************************************************)
(* The pure functions on their own: evaluateGuess and calculateScore are   *)
(* public (GameState.evaluateGuess, Utils.calculateScore) and are applied  *)
(* to arguments drawn from bounded sets.                                   *)
(***************************************************************************)
GuessChars == {"A", "B", "C", "a"}

TargetChars == {"A", "B", "C", "-"}

Words(chars, maxLen) == UNION {[1..n -> chars] : n \in 0..maxLen}

PureCalls ==
  {[op |-> "evaluateGuess", guess |-> g, target |-> t, returned |-> FALSE] :
     g \in Words(GuessChars, MaxLen), t \in Words(TargetChars, MaxLen)}
  \cup
  {[op |-> "calculateScore", cluesUsed |-> c, totalTries |-> n, returned |-> FALSE] :
     c \in 0..(MAX_CLUES + 1), n \in 0..MaxTries}

InitPure ==
  /\ currentPuzzle = Null
  /\ currentState = Null
  /\ isDaily = TRUE
  /\ storage = EmptyStorage
  /\ today = 0
  /\ lastCall \in PureCalls
  /\ lastResult = Null
  /\ BridgeIdle

EvaluateGuess ==
  /\ lastCall.op = "evaluateGuess"
  /\ lastResult' = Some(evaluateGuess(lastCall.guess, lastCall.target))
  /\ lastCall' = [lastCall EXCEPT !.returned = TRUE]
  /\ UNCHANGED gameVars
  /\ UNCHANGED bridgeVars

CalculateScore ==
  /\ lastCall.op = "calculateScore"
  /\ lastResult' = Some(calculateScore(lastCall.cluesUsed, lastCall.totalTries))
  /\ lastCall' = [lastCall EXCEPT !.returned = TRUE]
  /\ UNCHANGED gameVars
  /\ UNCHANGED bridgeVars

NextPure ==
  \/ EvaluateGuess
  \/ CalculateScore

SpecPure == InitPure /\ [][NextPure]_vars

(***************************************************************************)
(* Properties of the pure functions (checked under SpecPure)               *)
(***************************************************************************)
IsLetters(word) == \A i \in 1..Len(word) : word[i] \in Range(UpperCase)

Occurrences(word, x) == Cardinality({i \in 1..Len(word) : word[i] = x})

Min(a, b) == IF a <= b THEN a ELSE b

EvaluatedEqualLength ==
  /\ lastCall.op = "evaluateGuess"
  /\ lastCall.returned
  /\ IsLetters(lastCall.guess)
  /\ IsLetters(lastCall.target)
  /\ Len(lastCall.guess) = Len(lastCall.target)

\* C3: evaluateGuess consumes each target letter at most once: for every
\* letter x the entries for x marked correct or wrongPosition number
\* min(occurrences in guess, occurrences in target); every entry that is not
\* an exact match is wrongPosition or wrong, and among the non-exact
\* occurrences of x the wrongPosition marks go to the leftmost ones.
C3_ConsumeOnce ==
  EvaluatedEqualLength =>
    LET guess == lastCall.guess
        target == lastCall.target
        result == Val(lastResult)
        exact(i) == guess[i] = target[i]
        credited(x) == {i \in 1..Len(result) :
                          result[i].letter = x /\ result[i].status \in {"correct", "wrongPosition"}}
    IN /\ \A x \in Range(UpperCase) :
            Cardinality(credited(x)) = Min(Occurrences(guess, x), Occurrences(target, x))
       /\ \A i \in 1..Len(guess) :
            ~exact(i) => result[i].status \in {"wrongPosition", "wrong"}
       /\ \A i, j \in 1..Len(guess) :
            (i < j /\ guess[i] = guess[j] /\ ~exact(i) /\ ~exact(j)
               /\ result[j].status = "wrongPosition")
            => result[i].status = "wrongPosition"

C3_Witness ==
  /\ EvaluatedEqualLength
  /\ \E i, j \in 1..Len(lastCall.guess) :
       /\ i < j
       /\ lastCall.guess[i] = lastCall.guess[j]
       /\ Occurrences(lastCall.target, lastCall.guess[i]) = 1
       /\ Val(lastResult)[i].status = "wrongPosition"
       /\ Val(lastResult)[j].status = "wrong"

\* C4: evaluateGuess returns length(target) entries in guess order, entry i
\* carrying letter guess[i] and position i (0-based), with status correct
\* exactly at the exact matches (all correct iff guess = target); it leaves
\* the attempt state and the persisted values as they were.
C4_EvaluateShape ==
  EvaluatedEqualLength =>
    LET guess == lastCall.guess
        target == lastCall.target
        result == Val(lastResult)
    IN /\ Len(result) = Len(target)
       /\ \A i \in 1..Len(result) :
            /\ result[i].letter = guess[i]
            /\ result[i].position = i - 1
            /\ (result[i].status = "correct") <=> (guess[i] = target[i])
       /\ (\A i \in 1..Len(result) : result[i].status = "correct") <=> (guess = target)
       /\ currentPuzzle = Null
       /\ currentState = Null
       /\ storage = EmptyStorage

C4_Witness ==
  /\ EvaluatedEqualLength
  /\ Len(lastCall.guess) = 3
  /\ lastCall.guess # lastCall.target
  /\ \E i \in 1..3 : Val(lastResult)[i].status = "correct" /\ Val(lastResult)[i].position = i - 1

Initialized == currentPuzzle # Null /\ currentState # Null

InProgress == Initialized /\ Val(currentState).status = "in-progress"

Won == Initialized /\ Val(currentState).status = "won"

Submitted == lastCall.op = "submitGuess"

Normalized(guess) == trim(toUpperCase(guess))

LettersOnly(word) == stripSeparators(toUpperCase(word))

SavedDailyState == Val(storage[DAILY_STATE]).json

RestoringInitialize ==
  /\ lastCall'.op = "initialize"
  /\ lastCall'.restore
  /\ SavedDailyState.puzzleId = lastCall'.puzzle

FreshInitialize ==
  /\ lastCall'.op = "initialize"
  /\ lastCall'.restore => SavedDailyState.puzzleId # lastCall'.puzzle

\* C1: once the attempt is won, every submitGuess (any guess, any length)
\* fails with 'Game already completed' and changes neither the attempt
\* state nor storage, so the status stays 'won'.
C1_WonIsTerminal ==
  [][(Won /\ lastCall'.op = "submitGuess")
       => /\ lastResult' = Some([success |-> FALSE, error |-> <<"Game already completed">>])
          /\ currentState' = currentState
          /\ Val(currentState').status = "won"
          /\ storage' = storage]_vars

C1_Witness ==
  /\ Won
  /\ Submitted
  /\ lastResult = Some([success |-> FALSE, error |-> <<"Game already completed">>])
  /\ Len(Normalized(lastCall.guess)) # Len(LettersOnly(Val(currentPuzzle).word))

C7_DuplicateRejected ==
  [][(/\ InProgress
      /\ lastCall'.op = "submitGuess"
      /\ includes(Val(currentState).guesses, Normalized(lastCall'.guess)))
       => /\ lastResult' = Some([success |-> FALSE, error |-> <<"Already guessed">>])
          /\ currentState' = currentState
          /\ storage' = storage]_vars

C7_Witness ==
  /\ InProgress
  /\ Submitted
  /\ lastResult = Some([success |-> FALSE, error |-> <<"Already guessed">>])
  /\ ~includes(Val(currentState).guesses, lastCall.guess)

LetterCount(word) == Cardinality({i \in 1..Len(word) : word[i] \notin {" ", "-"}})

\* C8: a guess whose normalized length differs from the letters-only target
\* length never changes the attempt state or storage, and on an in-progress
\* attempt it is answered 'Guess must be L letters' with L that length.
C8_WrongLengthRejected ==
  [][(/\ lastCall'.op = "submitGuess"
      /\ Initialized
      /\ Len(Normalized(lastCall'.guess)) # LetterCount(Val(currentPuzzle).word))
       => /\ currentState' = currentState
          /\ storage' = storage
          /\ InProgress =>
               lastResult' = Some([success |-> FALSE,
                                   error |-> <<"Guess must be ",
                                               LetterCount(Val(currentPuzzle).word),
                                               " letters">>])]_vars

C8_Witness ==
  /\ InProgress
  /\ Submitted
  /\ Val(currentPuzzle).word = <<"A", "-", "B">>
  /\ lastCall.guess = <<"A", "-", "B">>
  /\ lastResult = Some([success |-> FALSE, error |-> <<"Guess must be ", 2, " letters">>])

\* C9: submitGuess always returns a value; a rejection is the record
\* {success: false, error}, chosen by the first failing check in the order
\* not initialized, already won, length mismatch, duplicate guess.
C9_FailureOrder ==
  [][lastCall'.op = "submitGuess" =>
       LET guess == Normalized(lastCall'.guess)
           result == Val(lastResult')
           failed(message) == result = [success |-> FALSE, error |-> message]
       IN /\ lastResult' # Null
          /\ "success" \in DOMAIN result
          /\ ~result.success => DOMAIN result = {"success", "error"}
          /\ IF ~Initialized THEN failed(<<"Game not initialized">>)
             ELSE IF Won THEN failed(<<"Game already completed">>)
             ELSE IF Len(guess) # LetterCount(Val(currentPuzzle).word)
               THEN failed(<<"Guess must be ", LetterCount(Val(currentPuzzle).word), " letters">>)
             ELSE IF includes(Val(currentState).guesses, guess)
               THEN failed(<<"Already guessed">>)
             ELSE result.success]_vars

C9_Witness ==
  /\ Won
  /\ Submitted
  /\ includes(Val(currentState).guesses, Normalized(lastCall.guess))
  /\ Normalized(lastCall.guess) # LettersOnly(Val(currentPuzzle).word)
  /\ lastResult = Some([success |-> FALSE, error |-> <<"Game already completed">>])

FreshAttempt(puzzleId, date) ==
  [puzzleId |-> puzzleId, date |-> date, guesses |-> <<>>, cluesRevealed |-> 1,
   correctPositions |-> <<>>, wrongPositionLetters |-> [Set |-> <<>>],
   status |-> "in-progress", score |-> 0]

\* C10: initialize restores the prior state verbatim (its wrongPositionLetters
\* list as a set) and writes nothing when the prior state is non-null and has
\* the puzzle's id; otherwise it creates a fresh attempt and persists it at
\* once to the slot of the mode it was called with.
C10_Initialize ==
  [][lastCall'.op = "initialize" =>
       /\ Val(currentPuzzle').id = lastCall'.puzzle
       /\ isDaily' = lastCall'.daily
       /\ lastResult' = currentState'
       /\ RestoringInitialize =>
            /\ \A f \in DOMAIN SavedDailyState \ {"wrongPositionLetters"} :
                 Val(currentState')[f] = SavedDailyState[f]
            /\ DOMAIN Val(currentState') = DOMAIN SavedDailyState
            /\ Val(currentState').wrongPositionLetters =
                 [Set |-> SavedDailyState.wrongPositionLetters]
            /\ storage' = storage
       /\ FreshInitialize =>
            LET slot == IF lastCall'.daily THEN DAILY_STATE ELSE QUICKPLAY_STATE
                fresh == FreshAttempt(lastCall'.puzzle, today)
            IN /\ currentState' = Some(fresh)
               /\ storage'[slot] =
                    Some([json |-> [fresh EXCEPT !.wrongPositionLetters = <<>>]])
               /\ \A k \in STORAGE_KEYS \ {slot} : storage'[k] = storage[k]]_vars

C10_Witness ==
  /\ lastCall.op = "initialize"
  /\ lastCall.restore
  /\ Initialized
  /\ Val(currentState).guesses # <<>>
  /\ Val(currentState).wrongPositionLetters # [Set |-> <<>>]
  /\ Val(currentState).puzzleId = lastCall.puzzle

(***************************************************************************)
(* Persistence of the attempt (checked under Spec)                         *)
(***************************************************************************)
CurrentSlot == IF isDaily THEN DAILY_STATE ELSE QUICKPLAY_STATE

Decoded(saved) == [saved EXCEPT !.wrongPositionLetters = [Set |-> @]]

\* The guesses a player may still type for each puzzle after an interruption.
RemainingGuesses(puzzle) ==
  IF puzzle.word = INDIA THEN {JAPAN, INDIA} ELSE {<<"A", "A">>, <<"A", "B">>}

RECURSIVE Play(_, _, _, _, _)
Play(puzzle, state, st, guesses, results) ==
  IF guesses = <<>> THEN [results |-> results, state |-> state]
  ELSE LET outcome == submitGuess(puzzle, state, isDaily, st, today, Head(guesses))
       IN Play(puzzle, outcome.state, outcome.storage, Tail(guesses),
               Append(results, outcome.result))

\* C11: whenever an attempt is loaded (after a fresh initialize, after every
\* accepted guess, and in between) the value stored in the slot of the current
\* mode, with its wrongPositionLetters list turned back into a set, equals
\* the attempt in memory; initialize given that stored value restores exactly
\* this attempt, and continuing the restored attempt with any two further
\* guesses gives the same per-guess results, final state and score as
\* continuing the attempt that was never interrupted.
C11_PersistRoundTrip ==
  Initialized =>
    /\ storage[CurrentSlot] # Null
    /\ LET saved == Val(storage[CurrentSlot]).json
           puzzle == Val(currentPuzzle)
           restored == Some(restoreState(saved))
       IN /\ Decoded(saved) = Val(currentState)
          /\ canRestore(puzzle, Some(saved))
          /\ restored = currentState
          /\ \A g1, g2 \in RemainingGuesses(puzzle) :
               LET resumed == Play(currentPuzzle, restored, storage, <<g1, g2>>, <<>>)
                   straight == Play(currentPuzzle, currentState, storage, <<g1, g2>>, <<>>)
               IN /\ resumed.results = straight.results
                  /\ resumed.state = straight.state
                  /\ Val(resumed.state).score = Val(straight.state).score

C11_Witness ==
  /\ lastCall.op = "initialize"
  /\ lastCall.restore
  /\ InProgress
  /\ Val(currentState).guesses = <<CHINA>>
  /\ Val(currentState).wrongPositionLetters = [Set |-> <<"I", "N">>]
  /\ Val(storage[DAILY_STATE]).json.wrongPositionLetters = <<"I", "N">>
  /\ Play(currentPuzzle, currentState, storage, <<JAPAN, INDIA>>, <<>>).state # currentState
  /\ Val(Play(currentPuzzle, currentState, storage, <<JAPAN, INDIA>>, <<>>).state).score = 60

(***************************************************************************)
(* Statistics and completion tracking (checked under Spec)                 *)
(***************************************************************************)
StoredStats(st) ==
  IF st[STATS] = Null
    THEN [played |-> 0, won |-> 0, totalScore |-> 0, bestScore |-> 0,
          clueDistribution |-> <<0, 0, 0>>, categoryStats |-> <<>>]
    ELSE Val(st[STATS]).json

StoredIds(st, key) == IF st[key] = Null THEN <<>> ELSE Val(st[key]).json

CategoryEntry(stats, category) ==
  IF category \in DOMAIN stats.categoryStats
    THEN stats.categoryStats[category]
    ELSE [played |-> 0, totalScore |-> 0]

WithId(ids, id) == IF \E i \in 1..Len(ids) : ids[i] = id THEN ids ELSE Append(ids, id)

WinningStep ==
  /\ lastCall'.op = "submitGuess"
  /\ Val(lastResult').success
  /\ Val(lastResult').isCorrect

\* C13: the aggregate statistics and the played / completed-daily id sets
\* change only in a winning submitGuess.  A win counts exactly one game with
\* the final cluesRevealed, the score and the puzzle category, and adds the
\* puzzle id to the completed-daily set when the attempt is daily and to the
\* played set otherwise, leaving the other set alone; every other step
\* (rejected or non-winning guess, initialize, reset) leaves all three alone.
C13_StatsOnlyOnWin ==
  [][/\ ~WinningStep =>
          /\ storage'[STATS] = storage[STATS]
          /\ storage'[PLAYED_PUZZLES] = storage[PLAYED_PUZZLES]
          /\ storage'[COMPLETED_DAILIES] = storage[COMPLETED_DAILIES]
     /\ WinningStep =>
          LET before == StoredStats(storage)
              after == StoredStats(storage')
              final == Val(currentState')
              puzzle == Val(currentPuzzle)
          IN /\ final.status = "won"
             /\ after.played = before.played + 1
             /\ after.won = before.won + 1
             /\ after.totalScore = before.totalScore + final.score
             /\ after.bestScore = Max(before.bestScore, final.score)
             /\ after.clueDistribution =
                  [before.clueDistribution EXCEPT ![final.cluesRevealed] = @ + 1]
             /\ CategoryEntry(after, puzzle.category) =
                  [played |-> CategoryEntry(before, puzzle.category).played + 1,
                   totalScore |-> CategoryEntry(before, puzzle.category).totalScore
                                    + final.score]
             /\ \A c \in DOMAIN after.categoryStats \ {puzzle.category} :
                  /\ c \in DOMAIN before.categoryStats
                  /\ after.categoryStats[c] = before.categoryStats[c]
             /\ IF isDaily
                  THEN /\ StoredIds(storage', COMPLETED_DAILIES) =
                            WithId(StoredIds(storage, COMPLETED_DAILIES), puzzle.id)
                       /\ storage'[PLAYED_PUZZLES] = storage[PLAYED_PUZZLES]
                  ELSE /\ StoredIds(storage', PLAYED_PUZZLES) =
                            WithId(StoredIds(storage, PLAYED_PUZZLES), puzzle.id)
                       /\ storage'[COMPLETED_DAILIES] = storage[COMPLETED_DAILIES]]_vars

C13_Witness ==
  /\ Won
  /\ Submitted
  /\ Val(lastResult).success
  /\ ~isDaily
  /\ StoredStats(storage).played = 1
  /\ StoredStats(storage).clueDistribution = <<0, 0, 1>>
  /\ StoredIds(storage, PLAYED_PUZZLES) = <<Val(currentPuzzle).id>>
  /\ StoredIds(storage, COMPLETED_DAILIES) = <<>>

(***************************************************************************)
(* Score and status of an attempt (checked under Spec)                     *)
(***************************************************************************)
SameAttemptKept ==
  /\ currentState # Null
  /\ currentState' # Null
  /\ lastCall'.op = "submitGuess"

\* C15: the score of an attempt is 0 exactly while its status is
\* 'in-progress'; the winning guess sets it once, to a value of at least 10,
\* and from then on no guess changes it, the persisted copy carries the same
\* score, and restoring the persisted copy brings the same score back.
C15_ScoreIffWon ==
  [][/\ currentState' # Null =>
          /\ Val(currentState').score = 0 <=> Val(currentState').status = "in-progress"
          /\ Val(currentState').status \in {"in-progress", "won"}
          /\ Val(storage'[CurrentSlot']).json.score = Val(currentState').score
     /\ WinningStep =>
          /\ Val(currentState).score = 0
          /\ Val(currentState').score >= 10
     /\ (SameAttemptKept /\ Val(currentState).status = "won") =>
          /\ Val(currentState').score = Val(currentState).score
          /\ Val(currentState').status = "won"
     /\ (SameAttemptKept /\ ~WinningStep) =>
          Val(currentState').score = Val(currentState).score
     /\ RestoringInitialize =>
          /\ Val(currentState').score = SavedDailyState.score
          /\ Val(currentState').status = SavedDailyState.status
          /\ storage'[DAILY_STATE] = storage[DAILY_STATE]]_vars

C15_Witness ==
  /\ lastCall.op = "initialize"
  /\ lastCall.restore
  /\ Won
  /\ Val(currentState).score = 80
  /\ Val(storage[DAILY_STATE]).json.score = 80

(***************************************************************************)
(* Unlimited guessing (checked under Spec)                                 *)
(***************************************************************************)
FreshGuessOfRightLength ==
  /\ InProgress
  /\ lastCall'.op = "submitGuess"
  /\ Len(Normalized(lastCall'.guess)) = LetterCount(Val(currentPuzzle).word)
  /\ ~includes(Val(currentState).guesses, Normalized(lastCall'.guess))

MaxDay == 3

MaxGames == 3

UpdateStats(cluesUsed, score, category, won) ==
  /\ getStats(storage).played < MaxGames
  /\ storage' = updateStats(storage, today, cluesUsed, score, category, won)
  /\ lastCall' = [op |-> "updateStats", cluesUsed |-> cluesUsed, score |-> score,
                  category |-> category, won |-> won]
  /\ lastResult' = Some(getStats(storage'))
  /\ UNCHANGED <<currentPuzzle, currentState, isDaily, today>>
  /\ UNCHANGED bridgeVars

NextDay ==
  /\ today < MaxDay
  /\ today' = today + 1
  /\ lastCall' = [op |-> "midnight"]
  /\ lastResult' = Null
  /\ UNCHANGED <<currentPuzzle, currentState, isDaily, storage>>
  /\ UNCHANGED bridgeVars

RecordGame ==
  \E cluesUsed \in {1, 3}, score \in {10, 100}, category \in {"Countries", "Movies"},
     won \in BOOLEAN :
    UpdateStats(cluesUsed, score, category, won)

NextStats ==
  \/ RecordGame
  \/ NextDay

SpecStats == Init /\ [][NextStats]_vars

WinRecorded == lastCall'.op = "updateStats" /\ lastCall'.won

\* C14: updateStats on a win leaves the streak as it is when the stored
\* lastPlayedDate is today, adds 1 when it is the previous calendar day, and
\* sets it to 1 otherwise (also when there is no lastPlayedDate); then
\* maxStreak is the larger of the previous maxStreak and the streak, so
\* maxStreak >= currentStreak, and lastPlayedDate is today.
C14_StreakRule ==
  [][WinRecorded =>
       LET before == getStats(storage)
           after == Val(lastResult')
           streak == IF before.lastPlayedDate = Some(today) THEN before.currentStreak
                     ELSE IF before.lastPlayedDate = Some(today - 1)
                       THEN before.currentStreak + 1
                     ELSE 1
       IN /\ after.currentStreak = streak
          /\ after.maxStreak = Max(before.maxStreak, streak)
          /\ after.maxStreak >= after.currentStreak
          /\ after.lastPlayedDate = Some(today)]_vars

\* What does hold on every win: the streak never exceeds maxStreak, maxStreak
\* never decreases, and lastPlayedDate is today.
C14_MaxStreakBounds ==
  [][lastCall'.op = "updateStats" =>
       LET before == getStats(storage)
           after == Val(lastResult')
       IN /\ after.maxStreak >= after.currentStreak
          /\ after.maxStreak >= before.maxStreak
          /\ after.lastPlayedDate = Some(today)]_vars

C14_Witness ==
  /\ lastCall.op = "updateStats"
  /\ lastCall.won
  /\ today = ClockChangeDay
  /\ Val(lastResult).currentStreak = 1
  /\ Val(lastResult).maxStreak = 2
  /\ Val(lastResult).won = 3

(***************************************************************************)
(* The bridge store with its message channels.  toDevvit holds the         *)
(* messages handed to parent.postMessage and not yet handled by the Devvit *)
(* onMessage handler; toWebview holds the replies posted by the handler    *)
(* and not yet seen by the webview listeners.  Both are handled in the     *)
(* order they were posted, one message per step.                           *)
(***************************************************************************)
MaxQueue == 2

KEYS == <<DAILY_STATE, QUICKPLAY_STATE, STATS, SETTINGS, PLAYED_PUZZLES, COMPLETED_DAILIES>>

BridgeStore == [cache |-> cache, posted |-> toDevvit]

requestFromRedis(posted, key) == sendMessage(posted, [type |-> "getGameState", key |-> key])

RECURSIVE prefetchFrom(_, _)
prefetchFrom(posted, index) ==
  IF index > Len(KEYS) THEN posted
  ELSE prefetchFrom(requestFromRedis(posted, KEYS[index]), index + 1)

prefetchAll(posted) == prefetchFrom(posted, 1)

orZero(redisStats, field) == IF field \in DOMAIN redisStats THEN redisStats[field] ELSE 0

setStatsAdding(c, redisStats) ==
  LET stats == getStats([cache |-> c, posted |-> <<>>])
  IN [c EXCEPT ![STATS] =
        Some([stats EXCEPT !.played = @ + orZero(redisStats, "played"),
                           !.won = @ + orZero(redisStats, "won"),
                           !.totalScore = @ + orZero(redisStats, "totalScore"),
                           !.currentStreak = orZero(redisStats, "currentStreak"),
                           !.maxStreak = orZero(redisStats, "maxStreak"),
                           !.clueDistribution =
                              <<orZero(redisStats, "clue1"), orZero(redisStats, "clue2"),
                                orZero(redisStats, "clue3")>>])]

setStats(c, redisStats) ==
  LET stats == getStats([cache |-> c, posted |-> <<>>])
  IN [c EXCEPT ![STATS] =
        Some([stats EXCEPT !.played = orZero(redisStats, "played"),
                           !.won = orZero(redisStats, "won"),
                           !.totalScore = orZero(redisStats, "totalScore"),
                           !.currentStreak = orZero(redisStats, "currentStreak"),
                           !.maxStreak = orZero(redisStats, "maxStreak"),
                           !.clueDistribution =
                              <<orZero(redisStats, "clue1"), orZero(redisStats, "clue2"),
                                orZero(redisStats, "clue3")>>])]

\* The bridge listener: a gameStateResponse with a non-null value replaces
\* the mirror entry, then the callbacks registered for the key are called
\* with the mirror entry and the registry entry is deleted.
listenerCache(c, message) ==
  IF message.type = "gameStateResponse" /\ message.value # Null
    THEN [c EXCEPT ![message.key] = Some(JSONParse(Val(message.value)))]
    ELSE c

listenerPending(pending, message) ==
  IF message.type = "gameStateResponse" /\ pending[message.key] # <<>>
    THEN [pending EXCEPT ![message.key] = <<>>]
    ELSE pending

\* The post and the player of the webview: one custom-puzzle post.
PostId == "p1"

RedditPuzzle == [id |-> "custom-p1", category |-> "Countries", word |-> <<"A", "B">>]

clueKey(cluesRevealed) ==
  IF cluesRevealed = 1 THEN "clue1"
  ELSE IF cluesRevealed = 2 THEN "clue2"
  ELSE IF cluesRevealed = 3 THEN "clue3"
  ELSE "clueN"

countClue(stats, cluesRevealed) ==
  IF clueKey(cluesRevealed) \in DOMAIN stats
    THEN [stats EXCEPT ![clueKey(cluesRevealed)] = @ + 1]
    ELSE stats

\* saveScore: the aggregate of the post.
puzzleStatsAfter(rds, data) ==
  LET stats == IF rds.puzzlestats # Null THEN JSONParse(Val(rds.puzzlestats))
               ELSE [totalScore |-> 0, solves |-> 0, clue1 |-> 0, clue2 |-> 0, clue3 |-> 0,
                     totalGuesses |-> 0]
  IN countClue([stats EXCEPT !.solves = @ + 1,
                             !.totalScore = @ + data.score,
                             !.totalGuesses = @ + Len(data.guesses)],
               data.cluesRevealed)

\* saveScore: the player's statistics across all posts.
userStatsAfter(rds, data) ==
  LET userStats == IF rds.userstats # Null THEN JSONParse(Val(rds.userstats))
                   ELSE [played |-> 0, won |-> 0, totalScore |-> 0, currentStreak |-> 0,
                         maxStreak |-> 0, clue1 |-> 0, clue2 |-> 0, clue3 |-> 0]
      streak == userStats.currentStreak + 1
  IN countClue([userStats EXCEPT !.played = @ + 1,
                                 !.won = @ + 1,
                                 !.totalScore = @ + data.score,
                                 !.currentStreak = streak,
                                 !.maxStreak = IF streak > @ THEN streak ELSE @],
               data.cluesRevealed)

\* The Devvit onMessage handler: what it writes to Redis ...
redisAfter(rds, message, day) ==
  IF message.type = "setGameState"
    THEN [rds EXCEPT !.state[message.key] = Some(message.value)]
  ELSE IF message.type = "removeGameState"
    THEN [rds EXCEPT !.state[message.key] = Null]
  ELSE IF message.type = "saveScore"
    THEN [rds EXCEPT !.score = Some(JSONStringify([score |-> message.data.score,
                                                  cluesRevealed |-> message.data.cluesRevealed,
                                                  guesses |-> message.data.guesses,
                                                  completedAt |-> day])),
                     !.playcount = @ + 1,
                     !.puzzlestats = Some(JSONStringify(puzzleStatsAfter(rds, message.data))),
                     !.leaderboard = Some(message.data.score),
                     !.userstats = Some(JSONStringify(userStatsAfter(rds, message.data)))]
  ELSE rds

\* ... and what it posts to the webview.
replyTo(rds, message) ==
  IF message.type = "webViewReady"
    THEN <<[type |-> "initialData",
            data |-> [puzzle |-> Some(RedditPuzzle), mode |-> "custom", postId |-> PostId,
                      userStats |-> IF rds.userstats # Null
                                      THEN Some(JSONParse(Val(rds.userstats))) ELSE Null]]>>
  ELSE IF message.type = "getGameState"
    THEN <<[type |-> "gameStateResponse", key |-> message.key,
            value |-> rds.state[message.key]]>>
  ELSE IF message.type = "setGameState"
    THEN <<[type |-> "gameStateSaved", key |-> message.key, success |-> TRUE]>>
  ELSE IF message.type = "saveScore"
    THEN <<[type |-> "userStats", data |-> userStatsAfter(rds, message.data)]>>
  ELSE <<>>

AttemptValues ==
  {[puzzleId |-> "custom-1", status |-> "in-progress", score |-> 0],
   [puzzleId |-> "custom-1", status |-> "won", score |-> 100]}

Aggregates ==
  {[played |-> 2, won |-> 2, totalScore |-> 110, currentStreak |-> 2, maxStreak |-> 2,
    clue1 |-> 1, clue2 |-> 0, clue3 |-> 1],
   [played |-> 1, won |-> 1, totalScore |-> 100]}

\* The writes posted by the session and not yet handled by Devvit.
writesInFlight ==
  Len(SelectSeq(toDevvit, LAMBDA m : m.type \in {"setGameState", "removeGameState"}))

BridgeSet(key, value) ==
  /\ writesInFlight < MaxQueue
  /\ cache' = setBridge(BridgeStore, key, value).cache
  /\ toDevvit' = setBridge(BridgeStore, key, value).posted
  /\ written' = [written EXCEPT ![key] = Some(value)]
  /\ bridgeResult' = Some(TRUE)
  /\ lastCall' = [op |-> "set", key |-> key]
  /\ UNCHANGED <<pendingReads, toWebview, redis, bridgeState, handlers, reddit, sharing>>
  /\ UNCHANGED <<gameVars, lastResult>>

BridgeRemove(key) ==
  /\ writesInFlight < MaxQueue
  /\ cache' = removeBridge(BridgeStore, key).cache
  /\ toDevvit' = removeBridge(BridgeStore, key).posted
  /\ written' = [written EXCEPT ![key] = Null]
  /\ bridgeResult' = Some(TRUE)
  /\ lastCall' = [op |-> "remove", key |-> key]
  /\ UNCHANGED <<pendingReads, toWebview, redis, bridgeState, handlers, reddit, sharing>>
  /\ UNCHANGED <<gameVars, lastResult>>

BridgeGet(key) ==
  /\ bridgeResult' = getBridge(BridgeStore, key)
  /\ lastCall' = [op |-> "get", key |-> key]
  /\ UNCHANGED <<cache, pendingReads, toDevvit, toWebview, redis, bridgeState, handlers, reddit, sharing, written>>
  /\ UNCHANGED <<gameVars, lastResult>>

PrefetchAll ==
  /\ \A i \in 1..Len(toDevvit) : toDevvit[i].type # "getGameState"
  /\ \A i \in 1..Len(toWebview) : toWebview[i].type # "gameStateResponse"
  /\ toDevvit' = prefetchAll(toDevvit)
  /\ bridgeResult' = Null
  /\ lastCall' = [op |-> "prefetchAll"]
  /\ UNCHANGED <<cache, pendingReads, toWebview, redis, bridgeState, handlers, reddit, sharing, written>>
  /\ UNCHANGED <<gameVars, lastResult>>

SetStats(redisStats) ==
  /\ cache' = setStats(cache, redisStats)
  /\ bridgeResult' = Null
  /\ lastCall' = [op |-> "setStats", redisStats |-> redisStats]
  /\ UNCHANGED <<pendingReads, toDevvit, toWebview, redis, bridgeState, handlers, reddit, sharing, written>>
  /\ UNCHANGED <<gameVars, lastResult>>

\* The wins this session has counted with updateStats (setStats leaves the
\* per-category counters alone).
winsCounted(stats) ==
  IF "Countries" \in DOMAIN stats.categoryStats
    THEN stats.categoryStats["Countries"].played ELSE 0

BridgeUpdateStats(cluesUsed, score) ==
  LET updated == updateStats(BridgeStore, today, cluesUsed, score, "Countries", TRUE)
  IN /\ writesInFlight < MaxQueue
     /\ winsCounted(getStats(BridgeStore)) < MaxGames
     /\ cache' = updated.cache
     /\ toDevvit' = updated.posted
     /\ written' = [written EXCEPT ![STATS] = updated.cache[STATS]]
     /\ bridgeResult' = Some(getStats(updated))
     /\ lastCall' = [op |-> "updateStats", cluesUsed |-> cluesUsed, score |-> score]
     /\ UNCHANGED <<pendingReads, toWebview, redis, bridgeState, handlers, reddit, sharing>>
     /\ UNCHANGED <<gameVars, lastResult>>

BridgeGetStats ==
  /\ bridgeResult' = Some(getStats(BridgeStore))
  /\ lastCall' = [op |-> "getStats"]
  /\ UNCHANGED <<cache, pendingReads, toDevvit, toWebview, redis, bridgeState, handlers, reddit, sharing, written>>
  /\ UNCHANGED <<gameVars, lastResult>>

DevvitOnMessage ==
  /\ toDevvit # <<>>
  /\ Len(toWebview) < Len(KEYS) + MaxQueue
  /\ redis' = redisAfter(redis, Head(toDevvit), today)
  /\ toWebview' = toWebview \o replyTo(redis, Head(toDevvit))
  /\ toDevvit' = Tail(toDevvit)
  /\ lastCall' = [op |-> "onMessage", type |-> Head(toDevvit).type]
  /\ UNCHANGED <<cache, pendingReads, bridgeState, handlers, reddit, bridgeResult, sharing, written>>
  /\ UNCHANGED <<gameVars, lastResult>>

BridgeListener ==
  /\ toWebview # <<>>
  /\ cache' = listenerCache(cache, Head(toWebview))
  /\ pendingReads' = listenerPending(pendingReads, Head(toWebview))
  /\ toWebview' = Tail(toWebview)
  /\ lastCall' = [op |-> "message", type |-> Head(toWebview).type, key |-> Head(toWebview).key]
  /\ UNCHANGED <<toDevvit, redis, bridgeState, handlers, reddit, bridgeResult, sharing, written>>
  /\ UNCHANGED <<gameVars, lastResult>>

SetAttempt == \E value \in AttemptValues : BridgeSet(DAILY_STATE, value)

RemoveAttempt == BridgeRemove(DAILY_STATE)

GetAny == \E key \in {DAILY_STATE, STATS} : BridgeGet(key)

PushStats == \E redisStats \in Aggregates : SetStats(redisStats)

CountWin == \E cluesUsed \in {1, 3}, score \in {10, 100} : BridgeUpdateStats(cluesUsed, score)

NextBridge ==
  \/ SetAttempt
  \/ RemoveAttempt
  \/ GetAny
  \/ PrefetchAll
  \/ DevvitOnMessage
  \/ BridgeListener

SpecBridge == Init /\ [][NextBridge]_vars

NextBridgeStats ==
  \/ PushStats
  \/ CountWin
  \/ BridgeGetStats
  \/ DevvitOnMessage
  \/ BridgeListener

SpecBridgeStats == Init /\ [][NextBridgeStats]_vars

(***************************************************************************)
(* Properties of the bridge store (checked under SpecBridge and            *)
(* SpecBridgeStats)                                                        *)
(***************************************************************************)
RequestsFor(posted, replies, key) ==
  Len(SelectSeq(posted, LAMBDA m : m.type = "getGameState" /\ m.key = key))
    + Len(SelectSeq(replies, LAMBDA m : m.type = "gameStateResponse" /\ m.key = key))

\* C17: set(k, v) puts v in the mirror before it returns, without waiting for
\* any reply, and from then on get(k) returns v until the session itself
\* calls set(k, .) or remove(k) again, whatever messages arrive in between.
C17_MirrorIsSourceOfTruth ==
  [][/\ lastCall'.op = "set" =>
          /\ cache'[lastCall'.key] = written'[lastCall'.key]
          /\ bridgeResult' = Some(TRUE)
          /\ toWebview' = toWebview
     /\ \A key \in STORAGE_KEYS :
          written'[key] # Null => cache'[key] = written'[key]]_vars

\* What does hold: the mirror entry of a written key changes only in a set or
\* remove of the session or when a gameStateResponse for that key arrives.
C17_MirrorChanges ==
  [][\A key \in STORAGE_KEYS :
       cache'[key] # cache[key] =>
         \/ lastCall'.op \in {"set", "remove"} /\ lastCall'.key = key
         \/ /\ lastCall'.op = "message"
            /\ lastCall'.type = "gameStateResponse"
            /\ lastCall'.key = key]_vars

C17_Witness ==
  /\ lastCall.op = "message"
  /\ lastCall.type = "gameStateResponse"
  /\ written[DAILY_STATE] # Null
  /\ Val(written[DAILY_STATE]).status = "won"
  /\ cache[DAILY_STATE] # Null
  /\ Val(cache[DAILY_STATE]).status = "in-progress"

\* C18: a read of a key that is not in the mirror is registered in the
\* pending-callback registry under that key, concurrent reads of the key
\* share one getGameState request in flight, and when the gameStateResponse
\* for the key arrives the registry entry of the key is removed.
C18_PendingReads ==
  [][/\ (lastCall'.op = "get" /\ cache[lastCall'.key] = Null) =>
          /\ pendingReads'[lastCall'.key] # <<>>
          /\ RequestsFor(toDevvit', toWebview', lastCall'.key) = 1
     /\ (lastCall'.op = "message" /\ lastCall'.type = "gameStateResponse") =>
          pendingReads'[lastCall'.key] = <<>>]_vars

\* What does hold: the registry is empty in every state, and a read neither
\* registers anything nor posts a request.
C18_RegistryUnused ==
  [][/\ \A key \in STORAGE_KEYS : pendingReads'[key] = <<>>
     /\ lastCall'.op = "get" =>
          /\ toDevvit' = toDevvit
          /\ bridgeResult' = cache[lastCall'.key]]_vars

C18_Witness ==
  /\ lastCall.op = "get"
  /\ lastCall.key = DAILY_STATE
  /\ bridgeResult = Null
  /\ redis.state[DAILY_STATE] # Null
  /\ pendingReads[DAILY_STATE] = <<>>
  /\ RequestsFor(toDevvit, toWebview, DAILY_STATE) = 0

AggregateField(redisStats, field) ==
  IF field \in DOMAIN redisStats THEN redisStats[field] ELSE 0

\* C20: setStats(agg) replaces, in one step, played, won, totalScore,
\* currentStreak and maxStreak of the stats mirror by the values of agg
\* (0 where agg has none) and clueDistribution by agg's clue1, clue2, clue3,
\* whatever updateStats had counted before, and posts no message.
C20_SetStats ==
  [][lastCall'.op = "setStats" =>
       LET agg == lastCall'.redisStats
           before == getStats(BridgeStore)
           after == Val(cache'[STATS])
       IN /\ after.played = AggregateField(agg, "played")
          /\ after.won = AggregateField(agg, "won")
          /\ after.totalScore = AggregateField(agg, "totalScore")
          /\ after.currentStreak = AggregateField(agg, "currentStreak")
          /\ after.maxStreak = AggregateField(agg, "maxStreak")
          /\ after.clueDistribution =
               <<AggregateField(agg, "clue1"), AggregateField(agg, "clue2"),
                 AggregateField(agg, "clue3")>>
          /\ getStats([cache |-> cache', posted |-> toDevvit']) = after
          /\ toDevvit' = toDevvit
          /\ toWebview' = toWebview
          /\ redis' = redis]_vars

C20_Witness ==
  /\ lastCall.op = "setStats"
  /\ "clue1" \notin DOMAIN lastCall.redisStats
  /\ winsCounted(Val(cache[STATS])) = 2
  /\ Val(cache[STATS]).played = 1
  /\ Val(cache[STATS]).won = 1
  /\ Val(cache[STATS]).clueDistribution = <<0, 0, 0>>
  /\ Val(cache[STATS]).bestScore = 100

(***************************************************************************)
(* GameState over the bridge store.  The bridge keeps the object it is     *)
(* given (cache[key] = value), and saveState hands it a shallow copy of    *)
(* the attempt, so the cached copy and the attempt in memory hold the same *)
(* guesses array and the same correctPositions array; initialize with a    *)
(* cached copy as savedState makes the attempt hold the arrays of that     *)
(* copy.  sharing records, per array field, which of the attempt in memory *)
(* ("state") and the two cached slots hold one and the same array: a push  *)
(* on the array of the attempt shows in every slot of its block.           *)
(***************************************************************************)
blockOf(partition, holder) == CHOOSE block \in partition : holder \in block

detach(partition, holder) ==
  ({block \ {holder} : block \in partition} \ {{}}) \cup {{holder}}

join(partition, holder, other) ==
  LET apart == detach(partition, holder)
      target == blockOf(apart, other)
  IN (apart \ {target, {holder}}) \cup {target \cup {holder}}

slotOf(daily) == IF daily THEN DAILY_STATE ELSE QUICKPLAY_STATE

\* The slots other than the one just saved whose cached copy holds the array
\* of the attempt in memory.
sharers(partition, saved) == blockOf(partition, "state") \ {"state", saved}

RECURSIVE pushShared(_, _, _, _)
pushShared(c, slots, field, array) ==
  IF slots = {} THEN c
  ELSE LET slot == CHOOSE s \in slots : TRUE
           shown == IF field = "guesses"
                      THEN [c EXCEPT ![slot] = Some([Val(@) EXCEPT !.guesses = array])]
                      ELSE [c EXCEPT ![slot] = Some([Val(@) EXCEPT !.correctPositions = array])]
       IN pushShared(shown, slots \ {slot}, field, array)

savedStateOf(store, savedKey) ==
  IF savedKey = Null THEN Null ELSE getBridge(store, Val(savedKey))

\* The outcome of initialize with the arrays it leaves shared: a restored
\* attempt shares the arrays of the slot it was read from, a fresh one those
\* of the slot it was saved to.
initializeShared(outcome, restored, savedKey, daily, shared) ==
  [state |-> outcome.state,
   cache |-> outcome.storage.cache,
   posted |-> outcome.storage.posted,
   sharing |->
     IF restored
       THEN [f \in DOMAIN shared |-> join(shared[f], "state", Val(savedKey))]
       ELSE [f \in DOMAIN shared |->
               join(detach(shared[f], "state"), slotOf(daily), "state")]]

bridgeInitialize(puzzle, savedKey, daily, state, store, shared, day) ==
  initializeShared(initialize(puzzle, savedStateOf(store, savedKey), daily, store, day),
                   canRestore(puzzle, savedStateOf(store, savedKey)),
                   savedKey, daily, shared)

\* The outcome of submitGuess with its pushes seen through every alias of
\* the attempt's arrays.
submitGuessShared(outcome, state, store, shared, slot) ==
  LET newState == Val(outcome.state)
  IN IF ~outcome.result.success
       THEN [state |-> state, cache |-> store.cache, posted |-> store.posted,
             sharing |-> shared, result |-> outcome.result]
     ELSE LET positions == IF outcome.result.isCorrect
                             THEN detach(shared.correctPositions, "state")
                             ELSE shared.correctPositions
              withGuesses == pushShared(outcome.storage.cache,
                                        sharers(shared.guesses, slot),
                                        "guesses", newState.guesses)
              withPositions == pushShared(withGuesses, sharers(positions, slot),
                                          "correctPositions", newState.correctPositions)
          IN [state |-> outcome.state,
              cache |-> withPositions,
              posted |-> outcome.storage.posted,
              sharing |-> [guesses |-> join(shared.guesses, slot, "state"),
                           correctPositions |-> join(positions, slot, "state")],
              result |-> outcome.result]

bridgeSubmitGuess(puzzle, state, daily, store, shared, day, guess) ==
  submitGuessShared(submitGuess(puzzle, state, daily, store, day, guess),
                    state, store, shared, slotOf(daily))

bridgeReset(daily, store, shared) ==
  LET cleared == IF ~daily THEN clearQuickPlayState(store) ELSE store
      apart == [f \in DOMAIN shared |-> detach(shared[f], "state")]
  IN [cache |-> cleared.cache,
      posted |-> cleared.posted,
      sharing |-> IF ~daily
                    THEN [f \in DOMAIN apart |-> detach(apart[f], QUICKPLAY_STATE)]
                    ELSE apart]

(***************************************************************************)
(* The same calls made to two pages: GameState over the local store        *)
(* (currentState, storage, lastResult) and GameState over the bridge store *)
(* (bridgeState, cache, toDevvit, bridgeResult).  Each page passes         *)
(* initialize the saved state it reads from its own store.  Devvit handles *)
(* the writes the bridge posts; the page never asks for a value, so the    *)
(* only messages that reach it are gameStateSaved acknowledgements, which  *)
(* the bridge listener ignores.  A call is made when both channels are     *)
(* empty.                                                                  *)
(***************************************************************************)
TwoStorePuzzles == {[id |-> "qp-001", category |-> "Countries", word |-> <<"A", "B">>]}

TwoStoreGuesses == {<<"A", "A">>, <<"A", "B">>}

SavedKeys == {Null, Some(DAILY_STATE), Some(QUICKPLAY_STATE)}

ChannelsEmpty == toDevvit = <<>> /\ toWebview = <<>>

BothInitialize(puzzle, savedKey, daily) ==
  LET savedState == IF savedKey = Null THEN Null ELSE getLocal(storage, Val(savedKey))
      local == initialize(puzzle, savedState, daily, storage, today)
      bridge == bridgeInitialize(puzzle, savedKey, daily, bridgeState, BridgeStore,
                                 sharing, today)
  IN /\ ChannelsEmpty
     /\ getStats(storage).played < MaxPlayed
     /\ getStats(BridgeStore).played < MaxPlayed
     /\ currentPuzzle' = Some(puzzle)
     /\ isDaily' = daily
     /\ currentState' = local.state
     /\ storage' = local.storage
     /\ lastResult' = local.state
     /\ bridgeState' = bridge.state
     /\ UNCHANGED <<handlers, reddit>>
     /\ cache' = bridge.cache
     /\ toDevvit' = bridge.posted
     /\ sharing' = bridge.sharing
     /\ bridgeResult' = bridge.state
     /\ lastCall' = [op |-> "initialize", puzzle |-> puzzle.id, savedKey |-> savedKey,
                     daily |-> daily]
     /\ UNCHANGED <<today, pendingReads, toWebview, redis, written>>

BothSubmitGuess(guess) ==
  LET local == submitGuess(currentPuzzle, currentState, isDaily, storage, today, guess)
      bridge == bridgeSubmitGuess(currentPuzzle, bridgeState, isDaily, BridgeStore,
                                  sharing, today, guess)
  IN /\ ChannelsEmpty
     /\ currentState' = local.state
     /\ storage' = local.storage
     /\ lastResult' = Some(local.result)
     /\ bridgeState' = bridge.state
     /\ UNCHANGED <<handlers, reddit>>
     /\ cache' = bridge.cache
     /\ toDevvit' = bridge.posted
     /\ sharing' = bridge.sharing
     /\ bridgeResult' = Some(bridge.result)
     /\ lastCall' = [op |-> "submitGuess", guess |-> guess]
     /\ UNCHANGED <<currentPuzzle, isDaily, today, pendingReads, toWebview, redis, written>>

BothReset ==
  LET bridge == bridgeReset(isDaily, BridgeStore, sharing)
  IN /\ ChannelsEmpty
     /\ currentPuzzle' = Null
     /\ currentState' = Null
     /\ storage' = IF ~isDaily THEN clearQuickPlayState(storage) ELSE storage
     /\ lastResult' = Null
     /\ bridgeState' = Null
     /\ UNCHANGED <<handlers, reddit>>
     /\ cache' = bridge.cache
     /\ toDevvit' = bridge.posted
     /\ sharing' = bridge.sharing
     /\ bridgeResult' = Null
     /\ lastCall' = [op |-> "reset"]
     /\ UNCHANGED <<isDaily, today, pendingReads, toWebview, redis, written>>

BothRead(getter) ==
  /\ lastResult' =
       IF getter = "getState" THEN currentState
       ELSE IF getter = "getStats" THEN Some(getStats(storage))
       ELSE IF getter = "getPlayedPuzzles" THEN Some(getPlayedPuzzles(storage))
       ELSE Some(getCompletedDailies(storage))
  /\ bridgeResult' =
       IF getter = "getState" THEN bridgeState
       ELSE IF getter = "getStats" THEN Some(getStats(BridgeStore))
       ELSE IF getter = "getPlayedPuzzles" THEN Some(getPlayedPuzzles(BridgeStore))
       ELSE Some(getCompletedDailies(BridgeStore))
  /\ lastCall' = [op |-> getter]
  /\ UNCHANGED <<gameVars, cache, pendingReads, toDevvit, toWebview, redis,
                 bridgeState, handlers, reddit, sharing, written>>

BothStart ==
  \E puzzle \in TwoStorePuzzles, savedKey \in SavedKeys, daily \in BOOLEAN :
    BothInitialize(puzzle, savedKey, daily)

BothGuess == \E guess \in TwoStoreGuesses : BothSubmitGuess(guess)

BothGet ==
  \E getter \in {"getState", "getStats", "getPlayedPuzzles", "getCompletedDailies"} :
    BothRead(getter)

NextTwoStores ==
  \/ BothStart
  \/ BothGuess
  \/ BothReset
  \/ BothGet
  \/ DevvitOnMessage
  \/ BridgeListener

SpecTwoStores == Init /\ [][NextTwoStores]_vars

\* C12: after every call of a sequence of initialize, submitGuess, reset,
\* getState, getStats, getPlayedPuzzles and getCompletedDailies calls started
\* from empty stores, with no message delivered to the bridge, the page over
\* the local store and the page over the bridge store have returned the same
\* result and hold the same attempt, the same stats and the same id sets.
C12_StoresAgree ==
  /\ bridgeResult = lastResult
  /\ bridgeState = currentState
  /\ getStats(BridgeStore) = getStats(storage)
  /\ getPlayedPuzzles(BridgeStore) = getPlayedPuzzles(storage)
  /\ getCompletedDailies(BridgeStore) = getCompletedDailies(storage)

SlotsAgree ==
  \A key \in STORAGE_KEYS :
    cache[key] = IF storage[key] = Null THEN Null ELSE Some(Val(storage[key]).json)

\* What does hold: from a state in which the two pages agree and every cached
\* value equals the stored one, each call returns the same result on both
\* pages, and the cached values stay equal to the stored ones unless the
\* cached copy of the other slot holds an array of the attempt in memory.
C12_AgreeUnlessShared ==
  [][(C12_StoresAgree /\ SlotsAgree) =>
       /\ C12_StoresAgree'
       /\ (/\ sharers(sharing.guesses, slotOf(isDaily)) = {}
           /\ sharers(sharing.correctPositions, slotOf(isDaily)) = {}) => SlotsAgree']_vars

C12_Witness ==
  /\ lastCall.op = "initialize"
  /\ lastCall.savedKey = Some(DAILY_STATE)
  /\ lastCall.daily
  /\ currentState # Null
  /\ bridgeState # Null
  /\ Val(currentState).guesses = <<>>
  /\ Val(bridgeState).guesses = <<<<"A", "A">>>>
  /\ Val(bridgeState).cluesRevealed = 1

(***************************************************************************)
(* The Reddit deployment: the webview page (App over GameState over the    *)
(* bridge StorageManager) of one custom-puzzle post, opened again and      *)
(* again by one player, and the Devvit handler behind it.  Opening the     *)
(* webview loads the page anew: the mirror, the attempt in memory and the  *)
(* App's variables start empty, Redis keeps what it was sent.  The page is *)
(* opened and guesses are typed when no message is in flight.              *)
(***************************************************************************)
RedditGuesses == {<<"A", "A">>, <<"B", "A">>, <<"A", "B">>}

MaxSolves == 3

\* DOMContentLoaded: every module of the page is constructed and
\* App.initialize posts webViewReady.
OpenWebview ==
  /\ ChannelsEmpty
  /\ redis.playcount < MaxSolves
  /\ cache' = EmptyStorage
  /\ pendingReads' = [k \in STORAGE_KEYS |-> <<>>]
  /\ currentPuzzle' = Null
  /\ isDaily' = TRUE
  /\ bridgeState' = Null
  /\ UNCHANGED <<handlers, reddit>>
  /\ bridgeResult' = Null
  /\ sharing' = [guesses |-> Unshared, correctPositions |-> Unshared]
  /\ written' = EmptyStorage
  /\ toDevvit' = sendMessage(<<>>, [type |-> "webViewReady"])
  /\ lastCall' = [op |-> "openWebview"]
  /\ UNCHANGED <<currentState, storage, today, lastResult, toWebview, redis>>

startCustomPuzzle(puzzle, state, store, shared, day) ==
  bridgeInitialize(puzzle, Some(DAILY_STATE), TRUE, state, store, shared, day)

\* A message from Devvit reaches the page: the bridge listener and then
\* App.onDevvitMessage run on it.
OnDevvitMessage ==
  /\ toWebview # <<>>
  /\ LET message == Head(toWebview)
         heard == listenerCache(cache, message)
     IN /\ pendingReads' = listenerPending(pendingReads, message)
        /\ toWebview' = Tail(toWebview)
        /\ lastCall' = [op |-> "message", type |-> message.type]
        /\ IF message.type = "initialData"
             THEN LET withStats == IF message.data.userStats # Null
                                     THEN setStats(heard, Val(message.data.userStats))
                                     ELSE heard
                      store == [cache |-> withStats, posted |-> toDevvit]
                  IN IF message.data.mode = "custom" /\ message.data.puzzle # Null
                       THEN LET started == startCustomPuzzle(Val(message.data.puzzle),
                                                             bridgeState, store, sharing, today)
                            IN /\ currentPuzzle' = message.data.puzzle
                               /\ isDaily' = TRUE
                               /\ bridgeState' = started.state
                               /\ UNCHANGED <<handlers, reddit>>
                               /\ cache' = started.cache
                               /\ toDevvit' = started.posted
                               /\ sharing' = started.sharing
                               /\ bridgeResult' = started.state
                       ELSE /\ cache' = withStats
                            /\ UNCHANGED <<currentPuzzle, isDaily, bridgeState, handlers, reddit, toDevvit,
                                           sharing, bridgeResult>>
           ELSE /\ cache' = IF message.type = "userStats"
                              THEN setStats(heard, message.data) ELSE heard
                /\ UNCHANGED <<currentPuzzle, isDaily, bridgeState, handlers, reddit, toDevvit, sharing,
                               bridgeResult>>
  /\ UNCHANGED <<currentState, storage, today, lastResult, redis, written>>

\* A solved puzzle of a post sends its score to Devvit.
withSaveScore(outcome, postId) ==
  IF outcome.result.success /\ outcome.result.isCorrect /\ postId # ""
    THEN [outcome EXCEPT !.posted =
            sendMessage(@, [type |-> "saveScore",
                            data |-> [postId |-> postId,
                                      score |-> outcome.result.score,
                                      cluesRevealed |-> outcome.result.cluesRevealed,
                                      guesses |-> Val(outcome.state).guesses]])]
    ELSE outcome

handleGuessSubmit(puzzle, state, daily, store, shared, day, postId, guess) ==
  withSaveScore(bridgeSubmitGuess(puzzle, state, daily, store, shared, day, guess), postId)

HandleGuessSubmit(guess) ==
  LET outcome == handleGuessSubmit(currentPuzzle, bridgeState, isDaily, BridgeStore,
                                   sharing, today, PostId, guess)
  IN /\ currentPuzzle # Null
     /\ ChannelsEmpty
     /\ bridgeState' = outcome.state
     /\ UNCHANGED <<handlers, reddit>>
     /\ cache' = outcome.cache
     /\ toDevvit' = outcome.posted
     /\ sharing' = outcome.sharing
     /\ bridgeResult' = Some(outcome.result)
     /\ lastCall' = [op |-> "handleGuessSubmit", guess |-> guess]
     /\ UNCHANGED <<gameVars, lastResult, pendingReads, toWebview, redis, written>>

TypeGuess == \E guess \in RedditGuesses : HandleGuessSubmit(guess)

NextReddit ==
  \/ OpenWebview
  \/ TypeGuess
  \/ DevvitOnMessage
  \/ OnDevvitMessage

SpecReddit == Init /\ [][NextReddit]_vars

\* The attempt Redis holds for the post and the player, if it is an attempt
\* at the post's puzzle.
PersistedAttempt ==
  IF redis.state[DAILY_STATE] # Null
       /\ JSONParse(Val(redis.state[DAILY_STATE])).puzzleId = RedditPuzzle.id
    THEN Some(JSONParse(Val(redis.state[DAILY_STATE])))
    ELSE Null

StartsCustomPuzzle == lastCall'.op = "message" /\ lastCall'.type = "initialData"

\* C19: in the Reddit deployment, when startCustomPuzzle reads the
\* daily-attempt slot the mirror holds the attempt persisted remotely for the
\* post and the player in an earlier webview session, and GameState.initialize
\* restores that attempt: no fresh attempt replaces it and nothing is posted
\* that would overwrite it.
C19_PersistedAttemptRestored ==
  [][(StartsCustomPuzzle /\ PersistedAttempt # Null) =>
       /\ cache'[DAILY_STATE] = PersistedAttempt
       /\ bridgeState' = Some(restoreState(Val(PersistedAttempt)))
       /\ toDevvit' = toDevvit]_vars

\* A won attempt is in Redis, and the page just opened started a fresh one
\* and posted it to the same slot.
C19_Witness ==
  /\ lastCall.op = "message"
  /\ lastCall.type = "initialData"
  /\ PersistedAttempt # Null
  /\ Val(PersistedAttempt).status = "won"
  /\ bridgeState # Null
  /\ Val(bridgeState).status = "in-progress"
  /\ Val(bridgeState).guesses = <<>>
  /\ \E i \in 1..Len(toDevvit) :
       /\ toDevvit[i].type = "setGameState"
       /\ toDevvit[i].key = DAILY_STATE
       /\ JSONParse(toDevvit[i].value).status = "in-progress"

(***************************************************************************)
(* GameState over a localStorage whose methods may throw.  Which methods   *)
(* throw, and for which keys, changes between calls (the quota fills up,   *)
(* the user frees space or blocks storage).  An exception that escapes     *)
(* StorageManager aborts the GameState call that made it.                  *)
(***************************************************************************)
StorageFaults == {{}, {STATS}, {DAILY_STATE, QUICKPLAY_STATE}, STORAGE_KEYS}

InitThrowing ==
  /\ currentPuzzle = Null
  /\ currentState = Null
  /\ isDaily = TRUE
  /\ storage = [items |-> EmptyStorage, getItem |-> {}, setItem |-> {}, removeItem |-> {},
                thrown |-> Null]
  /\ today = 0
  /\ lastCall = [op |-> "load"]
  /\ lastResult = Null
  /\ BridgeIdle

LocalStorageFault ==
  /\ \E reads \in StorageFaults, writes \in StorageFaults, removals \in {{}, STORAGE_KEYS} :
       storage' = [storage EXCEPT !.getItem = reads, !.setItem = writes,
                                  !.removeItem = removals]
  /\ lastCall' = [op |-> "fault"]
  /\ UNCHANGED <<currentPuzzle, currentState, isDaily, today, lastResult>>
  /\ UNCHANGED bridgeVars

escaped(st) == isThrowing(st) /\ st.thrown # Null

\* The end of a GameState call: it returns its result, or the exception
\* that escaped.
Returns(outcome, result, call) ==
  /\ currentState' = outcome.state
  /\ storage' = IF escaped(outcome.storage)
                  THEN [outcome.storage EXCEPT !.thrown = Null] ELSE outcome.storage
  /\ lastResult' = IF escaped(outcome.storage)
                     THEN Some(FailureThrown(Val(outcome.storage.thrown))) ELSE result
  /\ lastCall' = call

ThrowingInitialize(puzzle, savedState, daily) ==
  /\ getStats(itemsOf(storage)).played < MaxPlayed
  /\ currentPuzzle' = Some(puzzle)
  /\ isDaily' = daily
  /\ Returns(initialize(puzzle, savedState, daily, storage, today),
             initialize(puzzle, savedState, daily, storage, today).state,
             [op |-> "initialize", savedState |-> savedState])
  /\ UNCHANGED today
  /\ UNCHANGED bridgeVars

ThrowingSubmitGuess(guess) ==
  /\ Returns(submitGuess(currentPuzzle, currentState, isDaily, storage, today, guess),
             Some(submitGuess(currentPuzzle, currentState, isDaily, storage, today, guess).result),
             [op |-> "submitGuess", guess |-> guess])
  /\ UNCHANGED <<currentPuzzle, isDaily, today>>
  /\ UNCHANGED bridgeVars

ThrowingStartFresh ==
  \E puzzle \in TwoStorePuzzles, daily \in BOOLEAN : ThrowingInitialize(puzzle, Null, daily)

ThrowingStartFromDailySlot ==
  \E puzzle \in TwoStorePuzzles : ThrowingInitialize(puzzle, getDailyState(storage), TRUE)

ThrowingGuess == \E guess \in TwoStoreGuesses : ThrowingSubmitGuess(guess)

NextThrowing ==
  \/ LocalStorageFault
  \/ ThrowingStartFresh
  \/ ThrowingStartFromDailySlot
  \/ ThrowingGuess

SpecThrowing == InitThrowing /\ [][NextThrowing]_vars

\* C21: when localStorage rejects reads or writes, submitGuess and initialize
\* do not throw: they return what they return over a localStorage that holds
\* the same items and never throws, and leave the same Attempt State in
\* memory.
C21_PersistenceFailuresTolerated ==
  [][/\ lastCall'.op = "submitGuess" =>
          /\ lastResult' = Some(submitGuess(currentPuzzle, currentState, isDaily,
                                            itemsOf(storage), today, lastCall'.guess).result)
          /\ currentState' = submitGuess(currentPuzzle, currentState, isDaily,
                                         itemsOf(storage), today, lastCall'.guess).state
     /\ lastCall'.op = "initialize" =>
          /\ lastResult' = initialize(Val(currentPuzzle'), lastCall'.savedState, isDaily',
                                      itemsOf(storage), today).state
          /\ currentState' = lastResult']_vars

\* Two guesses were accepted, the second one a win, while no write of the
\* attempt, the statistics or the id sets went through.
C21_Witness ==
  /\ lastCall.op = "submitGuess"
  /\ lastResult # Null
  /\ "success" \in DOMAIN Val(lastResult)
  /\ Val(lastResult).success
  /\ Val(lastResult).isCorrect
  /\ Len(Val(currentState).guesses) = 2
  /\ storage.setItem = STORAGE_KEYS
  /\ storage.items = EmptyStorage

(***************************************************************************)
(* clearAll, in both stores: remove(key) for every known key.  The two     *)
(* pages of SpecTwoStores with clearAll in place of the getters.           *)
(***************************************************************************)
RECURSIVE removeFrom(_, _)
removeFrom(st, index) ==
  IF index > Len(KEYS) THEN st
  ELSE removeFrom(remove(st, KEYS[index]), index + 1)

clearAllButDaily(st) == removeFrom(st, 2)

clearAll(st) == removeFrom(st, 1)

BothClearAll ==
  /\ ChannelsEmpty
  /\ storage' = clearAll(storage)
  /\ cache' = clearAll(BridgeStore).cache
  /\ toDevvit' = clearAll(BridgeStore).posted
  /\ sharing' = [guesses |-> Unshared, correctPositions |-> Unshared]
  /\ written' = EmptyStorage
  /\ lastResult' = Null
  /\ bridgeResult' = Null
  /\ lastCall' = [op |-> "clearAll"]
  /\ UNCHANGED <<currentPuzzle, currentState, isDaily, today, pendingReads, toWebview,
                 redis, bridgeState, handlers, reddit>>

NextClear ==
  \/ BothStart
  \/ BothGuess
  \/ BothReset
  \/ DevvitOnMessage
  \/ BridgeListener
  \/ BothClearAll

SpecClear == Init /\ [][NextClear]_vars

Reads(st) ==
  [getStats |-> getStats(st),
   getPlayedPuzzles |-> getPlayedPuzzles(st),
   getCompletedDailies |-> getCompletedDailies(st),
   getDailyState |-> getDailyState(st),
   getQuickPlayState |-> getQuickPlayState(st)]

Defaults ==
  [getStats |-> [played |-> 0, won |-> 0, currentStreak |-> 0, maxStreak |-> 0,
                 totalScore |-> 0, bestScore |-> 0, lastPlayedDate |-> Null,
                 clueDistribution |-> <<0, 0, 0>>, categoryStats |-> <<>>],
   getPlayedPuzzles |-> <<>>,
   getCompletedDailies |-> <<>>,
   getDailyState |-> Null,
   getQuickPlayState |-> Null]

\* What Redis holds once Devvit has handled the messages posted so far.
RECURSIVE settled(_, _)
settled(rds, posted) ==
  IF posted = <<>> THEN rds ELSE settled(redisAfter(rds, Head(posted), today), Tail(posted))

\* C22: in both stores the reads made before any write return the defaults;
\* clearAll can be called in any state, after it every read returns its
\* default again, and a second clearAll leaves the store (the items of the
\* local store; the mirror of the bridge store and what Redis comes to hold)
\* as the first one left it.
C22_DefaultsAndClearAll ==
  /\ Reads(storage) = Defaults
  /\ Reads(BridgeStore) = Defaults
  /\ [][lastCall'.op = "clearAll" =>
          /\ Reads(storage') = Defaults
          /\ Reads([cache |-> cache', posted |-> toDevvit']) = Defaults
          /\ clearAll(storage') = storage'
          /\ clearAll([cache |-> cache', posted |-> toDevvit']).cache = cache'
          /\ settled(redis', clearAll([cache |-> cache', posted |-> toDevvit']).posted)
               = settled(redis', toDevvit')]_vars

\* clearAll was called on stores that held a won attempt, statistics and an
\* id set.
C22_Witness ==
  /\ lastCall.op = "clearAll"
  /\ storage = EmptyStorage
  /\ cache = EmptyStorage
  /\ Len(toDevvit) = Len(KEYS)
  /\ redis.state[STATS] # Null
  /\ redis.state[DAILY_STATE] # Null
  /\ redis.state[COMPLETED_DAILIES] # Null

(***************************************************************************)
(* The daily puzzle index.  Time is counted in hours from LAUNCH_DATE      *)
(* (new Date('2026-02-04'): midnight UTC).  A call is made on the local    *)
(* calendar day numbered day (0 is the launch date, negative before it) in *)
(* a zone whose clock is zone hours ahead of UTC; local midnight of that   *)
(* day is the instant day * 24 - zone.                                     *)
(***************************************************************************)
MaxEpochDays == 4

MaxPool == 3

Zones == {0 - 5, 0, 1}

oneDay == 24

LAUNCH_DATE == 0

getTodayMidnight(day, zone) == day * oneDay - zone

abs(x) == IF x < 0 THEN 0 - x ELSE x

\* JavaScript %: the sign of the result is the sign of the dividend.
remainder(a, n) == IF a < 0 THEN 0 - ((0 - a) % n) ELSE a % n

daysBetween(date1, date2) == abs(date2 - date1) \div oneDay

\* Utils.getDailyPuzzleIndex (the web page and the Reddit webview)
getDailyPuzzleIndex(totalPuzzles, day, zone) ==
  remainder(daysBetween(LAUNCH_DATE, getTodayMidnight(day, zone)), totalPuzzles)

\* getDailyPuzzleIndex of main.tsx (the Devvit scheduler)
getDailyPuzzleIndexDevvit(totalPuzzles, day, zone) ==
  LET daysSinceLaunch == (getTodayMidnight(day, zone) - LAUNCH_DATE) \div oneDay
  IN remainder(remainder(daysSinceLaunch, totalPuzzles) + totalPuzzles, totalPuzzles)

DailyCalls ==
  {[op |-> "getDailyPuzzleIndex", day |-> d, zone |-> z, totalPuzzles |-> n] :
     d \in (0 - MaxEpochDays)..MaxEpochDays, z \in Zones, n \in 1..MaxPool}

InitDaily ==
  /\ currentPuzzle = Null
  /\ currentState = Null
  /\ isDaily = TRUE
  /\ storage = EmptyStorage
  /\ today = 0
  /\ lastCall \in DailyCalls
  /\ lastResult = Null
  /\ BridgeIdle

GetDailyPuzzleIndex ==
  /\ lastCall.op = "getDailyPuzzleIndex"
  /\ lastResult' = Some([web |-> getDailyPuzzleIndex(lastCall.totalPuzzles, lastCall.day,
                                                     lastCall.zone),
                         reddit |-> getDailyPuzzleIndexDevvit(lastCall.totalPuzzles,
                                                              lastCall.day, lastCall.zone)])
  /\ UNCHANGED lastCall
  /\ UNCHANGED gameVars
  /\ UNCHANGED bridgeVars

SpecDaily == InitDaily /\ [][GetDailyPuzzleIndex]_vars

\* C23: for a date and a pool of N >= 1 puzzles the daily index is the same
\* on every call; it is the signed number of whole calendar days since the
\* launch date modulo N, wrapped into 0..N-1 (also before the launch date);
\* it is 0 on the launch date; and the web and the Reddit implementation
\* return the same index.
C23_DailyIndex ==
  [][/\ lastResult # Null => lastResult' = lastResult
     /\ Val(lastResult').web = lastCall.day % lastCall.totalPuzzles
     /\ Val(lastResult').reddit = lastCall.day % lastCall.totalPuzzles
     /\ lastCall.day = 0 => Val(lastResult').web = 0 /\ Val(lastResult').reddit = 0
     /\ Val(lastResult').web = Val(lastResult').reddit]_vars

\* From the launch date on, in UTC, both implementations return the number
\* of days since the launch date modulo the pool size.
C23_AgreeFromLaunchInUTC ==
  (lastResult # Null /\ lastCall.day >= 0 /\ lastCall.zone = 0) =>
    /\ Val(lastResult).web = lastCall.day % lastCall.totalPuzzles
    /\ Val(lastResult).reddit = lastCall.day % lastCall.totalPuzzles

\* The day before the launch date, in UTC, with three puzzles: the web page
\* answers 1, the Devvit scheduler 2.
C23_Witness ==
  /\ lastCall.op = "getDailyPuzzleIndex"
  /\ lastCall.day = 0 - 1
  /\ lastCall.zone = 0
  /\ lastCall.totalPuzzles = 3
  /\ lastResult = Some([web |-> 1, reddit |-> 2])

(***************************************************************************)
(* App.startQuickPlayMode over GameState and the local store.  What the    *)
(* category files hold, which of them have been fetched when the pool is   *)
(* built, and which daily puzzles are past are inputs of the call; the     *)
(* Reddit webview builds the same pool without past dailies.               *)
(***************************************************************************)
CategoryFiles ==
  [Countries |-> <<[id |-> "qp-countries-001", category |-> "Countries", word |-> <<"A", "B">>],
                   [id |-> "qp-countries-002", category |-> "Countries", word |-> <<"B", "A">>]>>,
   Movies |-> <<>>]

PastDailyPuzzles == <<[id |-> "daily-001", category |-> "Countries", word |-> <<"A", "A">>]>>

QuickPlayGuesses == {<<"A", "B">>, <<"B", "A">>, <<"A", "A">>}

NoPuzzlesAvailable == <<"No puzzles available in this category">>

\* quickPlayPuzzles after the fetches: the files of the categories loaded.
loadedPuzzles(loaded) ==
  [c \in DOMAIN CategoryFiles |-> IF c \in loaded THEN Some(CategoryFiles[c]) ELSE Null]

arrayOf(categoryPuzzles) == IF categoryPuzzles # Null THEN Val(categoryPuzzles) ELSE <<>>

availablePuzzles(category, quickPlayPuzzles, pastDailies) ==
  IF category = "random"
    THEN arrayOf(quickPlayPuzzles["Countries"]) \o arrayOf(quickPlayPuzzles["Movies"])
           \o pastDailies
    ELSE arrayOf(quickPlayPuzzles[category])
           \o SelectSeq(pastDailies, LAMBDA p : p.category = category)

unplayedOf(available, playedIds) ==
  SelectSeq(available, LAMBDA p : ~includes(playedIds, p.id))

puzzlePoolPlayedFirst(available, playedIds) ==
  IF Len(available) > Len(unplayedOf(available, playedIds))
    THEN SelectSeq(available, LAMBDA p : includes(playedIds, p.id))
    ELSE available

puzzlePool(available, playedIds) ==
  IF Len(unplayedOf(available, playedIds)) > 0
    THEN unplayedOf(available, playedIds)
    ELSE available

StartQuickPlayMode(category, loaded, pastDailies) ==
  LET available == availablePuzzles(category, loadedPuzzles(loaded), pastDailies)
      pool == puzzlePool(available, getPlayedPuzzles(storage))
  IN /\ lastCall' = [op |-> "startQuickPlayMode",
                     available |-> [i \in 1..Len(available) |-> available[i].id]]
     /\ IF Len(pool) = 0
          THEN /\ lastResult' = Some(NoPuzzlesAvailable)
               /\ UNCHANGED <<currentPuzzle, currentState, isDaily, storage>>
          ELSE \E i \in 1..Len(pool) :
                 /\ currentPuzzle' = Some(pool[i])
                 /\ isDaily' = FALSE
                 /\ currentState' = initialize(pool[i], Null, FALSE, storage, today).state
                 /\ storage' = initialize(pool[i], Null, FALSE, storage, today).storage
                 /\ lastResult' = Null
     /\ UNCHANGED today
     /\ UNCHANGED bridgeVars

CategorySelect ==
  \E category \in {"random", "Countries", "Movies"}, loaded \in SUBSET DOMAIN CategoryFiles,
     pastDailies \in {<<>>, PastDailyPuzzles} :
    StartQuickPlayMode(category, loaded, pastDailies)

QuickPlayGuess ==
  /\ getStats(storage).played < MaxGames
  /\ \E guess \in QuickPlayGuesses : SubmitGuess(guess)

NextQuickPlay ==
  \/ CategorySelect
  \/ QuickPlayGuess

SpecQuickPlay == Init /\ [][NextQuickPlay]_vars

IdsOf(puzzles) == {puzzles[i] : i \in DOMAIN puzzles}

\* C24: startQuickPlayMode draws the puzzle from the candidates that have not
\* been played whenever there is one, and from all candidates when every one
\* has been played; it reports 'No puzzles available in this category' only
\* when there is no candidate, and then leaves the current puzzle, the
\* Attempt State and the persisted slots as they were.
C24_QuickPlaySelection ==
  [][lastCall'.op = "startQuickPlayMode" =>
       LET candidates == IdsOf(lastCall'.available)
           unplayed == candidates \ IdsOf(getPlayedPuzzles(storage))
       IN /\ unplayed # {} =>
               /\ lastResult' = Null
               /\ Val(currentPuzzle').id \in unplayed
          /\ (unplayed = {} /\ candidates # {}) =>
               /\ lastResult' = Null
               /\ Val(currentPuzzle').id \in candidates
          /\ candidates = {} <=> lastResult' = Some(NoPuzzlesAvailable)
          /\ candidates = {} =>
               /\ currentPuzzle' = currentPuzzle
               /\ currentState' = currentState
               /\ storage' = storage]_vars

\* Both puzzles of the category have been played and one of them is drawn
\* again.
C24_Witness ==
  /\ lastCall.op = "startQuickPlayMode"
  /\ IdsOf(lastCall.available) = {"qp-countries-001", "qp-countries-002"}
  /\ IdsOf(lastCall.available) \subseteq IdsOf(getPlayedPuzzles(storage))
  /\ currentPuzzle # Null
  /\ Val(currentPuzzle).id \in IdsOf(lastCall.available)
  /\ Val(currentState).guesses = <<>>

(***************************************************************************)
(* GameState.reset                                                         *)
(***************************************************************************)
\* C25: after reset, getState() and getPuzzle() are null and submitGuess
\* fails with 'Game not initialized' until the next initialize; reset clears
\* the persisted quick-play slot exactly when the last initialize was
\* non-daily (isDaily is the flag of the last initialize: only initialize
\* sets it), and never changes the daily slot, the stats or the id sets.
C25_Reset ==
  [][/\ lastCall'.op = "reset" =>
          /\ currentState' = Null
          /\ currentPuzzle' = Null
          /\ ~isDaily => getQuickPlayState(storage') = Null
          /\ isDaily => getQuickPlayState(storage') = getQuickPlayState(storage)
          /\ getDailyState(storage') = getDailyState(storage)
          /\ getStats(storage') = getStats(storage)
          /\ getPlayedPuzzles(storage') = getPlayedPuzzles(storage)
          /\ getCompletedDailies(storage') = getCompletedDailies(storage)
     /\ lastCall'.op = "initialize" => isDaily' = lastCall'.daily
     /\ lastCall'.op \in {"reset", "submitGuess"} => isDaily' = isDaily
     /\ (currentState = Null /\ currentPuzzle = Null /\ lastCall'.op # "initialize") =>
          /\ currentState' = Null
          /\ currentPuzzle' = Null
          /\ lastCall'.op = "submitGuess" =>
               /\ lastResult' = Some(Failure(NotInitialized))
               /\ storage' = storage]_vars

\* A quick-play attempt was reset after a daily one had been stored: the
\* quick-play slot is gone, the daily slot is still there, and a guess has
\* been refused since.
C25_Witness ==
  /\ lastCall.op = "submitGuess"
  /\ lastResult = Some(Failure(NotInitialized))
  /\ currentState = Null
  /\ ~isDaily
  /\ getQuickPlayState(storage) = Null
  /\ getDailyState(storage) # Null

(***************************************************************************)
(* The hints of an attempt: getRevealedLetters and                         *)
(* getWrongPositionLettersToShow, over attempts on words with a repeated   *)
(* letter and with separators.                                             *)
(***************************************************************************)
MaxGuesses == 3

HintPuzzles ==
  {[id |-> "daily-001", category |-> "Countries", word |-> <<"A", "B", "A">>],
   [id |-> "qp-movies-001", category |-> "Movies", word |-> <<"B", "-", "A", " ", "A">>]}

HintGuesses ==
  {<<"B", "A", "B">>, <<"A", "B", "C">>, <<"A", "B", "A">>, <<" ", "B", "A", "A">>,
   <<"B", "-", "A", " ", "A">>, <<"A", "B">>, <<"B", "-", "A">>}

getRevealedLetters(puzzle, state) ==
  IF puzzle = Null \/ state = Null THEN <<>>
  ELSE LET targetWord == targetWordOf(Val(puzzle))
           positions == Val(state).correctPositions
       IN [pos \in {positions[i] : i \in DOMAIN positions} |-> targetWord[pos + 1]]

\* Object.values of an object with integer keys: the values in ascending
\* key order.
RECURSIVE ObjectValues(_)
ObjectValues(obj) ==
  IF DOMAIN obj = {} THEN <<>>
  ELSE LET key == CHOOSE k \in DOMAIN obj : \A j \in DOMAIN obj : k <= j
       IN <<obj[key]>> \o ObjectValues([j \in DOMAIN obj \ {key} |-> obj[j]])

\* new RegExp(char, 'g'): a letter matches itself, a dot any character.
regExpMatches(char, c) == char = "." \/ c = char

countOccurrences(str, char) == Len(SelectSeq(str, LAMBDA c : regExpMatches(char, c)))

getWrongPositionLettersToShowUnrevealed(puzzle, state) ==
  IF puzzle = Null \/ state = Null THEN <<>>
  ELSE LET revealedLetters == ObjectValues(getRevealedLetters(puzzle, state))
       IN SelectSeq(ArrayFrom(Val(state).wrongPositionLetters),
                    LAMBDA letter : countOccurrences(revealedLetters, letter) = 0)

getWrongPositionLettersToShow(puzzle, state) ==
  IF puzzle = Null \/ state = Null THEN <<>>
  ELSE LET targetWord == targetWordOf(Val(puzzle))
           revealedLetters == ObjectValues(getRevealedLetters(puzzle, state))
       IN SelectSeq(ArrayFrom(Val(state).wrongPositionLetters),
                    LAMBDA letter : countOccurrences(revealedLetters, letter)
                                      < countOccurrences(targetWord, letter))

GetWrongPositionLettersToShow ==
  /\ lastCall' = [op |-> "getWrongPositionLettersToShow"]
  /\ lastResult' = Some(getWrongPositionLettersToShow(currentPuzzle, currentState))
  /\ UNCHANGED <<currentPuzzle, currentState, isDaily, storage, today>>
  /\ UNCHANGED bridgeVars

\* A new attempt is started when none is in progress.
HintsStart ==
  /\ currentState # Null => Val(currentState).status = "won"
  /\ \E puzzle \in HintPuzzles, daily \in BOOLEAN : Initialize(puzzle, Null, daily)

\* The saved daily attempt is taken up when no quick-play attempt is in
\* progress.
HintsResume ==
  /\ currentState # Null => (isDaily \/ Val(currentState).status = "won")
  /\ \E puzzle \in HintPuzzles : Initialize(puzzle, getDailyState(storage), TRUE)

HintsGuess ==
  /\ currentState # Null => Len(Val(currentState).guesses) < MaxGuesses
  /\ \E guess \in HintGuesses : SubmitGuess(guess)

NextHints ==
  \/ HintsStart
  \/ HintsResume
  \/ HintsGuess
  \/ GetWrongPositionLettersToShow

SpecHints == Init /\ [][NextHints]_vars

\* C26: getWrongPositionLettersToShow returns exactly the letters x of
\* wrongPositionLetters for which fewer indices of the current
\* correctPositions have target letter x than x has occurrences in the
\* letters-only target; it is computed from the current correctPositions on
\* every call.
C26_WrongPositionLettersToShow ==
  [][(lastCall'.op = "getWrongPositionLettersToShow" /\ currentState # Null) =>
       LET target == targetWordOf(Val(currentPuzzle))
           state == Val(currentState)
           revealed(x) == {i \in 0..(Len(target) - 1) :
                             includes(state.correctPositions, i) /\ target[i + 1] = x}
           total(x) == {i \in 1..Len(target) : target[i] = x}
           letters == ArrayFrom(state.wrongPositionLetters)
       IN {Val(lastResult')[i] : i \in DOMAIN Val(lastResult')}
            = {x \in {letters[i] : i \in DOMAIN letters} :
                 Cardinality(revealed(x)) < Cardinality(total(x))}]_vars

\* Target ABA in progress with indices 0 and 1 revealed: B, seen in a wrong
\* position before, is no longer shown, while A, revealed once of twice, is.
C26_Witness ==
  /\ lastCall.op = "getWrongPositionLettersToShow"
  /\ currentState # Null
  /\ Val(currentState).status = "in-progress"
  /\ includes(ArrayFrom(Val(currentState).wrongPositionLetters), "B")
  /\ includes(ArrayFrom(Val(currentState).wrongPositionLetters), "A")
  /\ lastResult = Some(<<"A">>)

(***************************************************************************)
(* Words with separators                                                   *)
(***************************************************************************)
hasSeparator(s) == \E i \in DOMAIN s : s[i] \in Separators

\* A guess on a word with separators is measured against the letters-only
\* uppercased form L of the word: refused with the length failure exactly
\* when its normalized length differs from Len(L), won when it equals L,
\* evaluated and recorded by positions 0..Len(L)-1 of L.
LettersOnlyComparison(target, normalized, state, result, stateAfter) ==
  /\ (result = Failure(LengthMismatch(Len(target)))) <=> (Len(normalized) # Len(target))
  /\ normalized = target =>
       /\ result.success
       /\ result.isCorrect
       /\ stateAfter.status = "won"
  /\ result.success =>
       /\ Len(result.evaluation) = Len(target)
       /\ \A i \in 1..Len(target) :
            /\ result.evaluation[i].position = i - 1
            /\ result.evaluation[i].status = "correct" <=> normalized[i] = target[i]
       /\ \A i \in DOMAIN stateAfter.correctPositions :
            stateAfter.correctPositions[i] \in 0..(Len(target) - 1)
       /\ \A i \in 1..Len(target) :
            normalized[i] = target[i] => includes(stateAfter.correctPositions, i - 1)

OnWordWithSeparators ==
  /\ lastCall'.op = "submitGuess"
  /\ currentState # Null
  /\ Val(currentState).status = "in-progress"
  /\ hasSeparator(Val(currentPuzzle).word)

\* C27: for a puzzle word containing spaces or hyphens the required guess
\* length is the number of letters, a guess equal to the letters-only form
\* wins, the evaluation and correctPositions index the letters-only form,
\* and a guess that still contains separators is refused with the length
\* failure and not compared.
C27_LettersOnlyForm ==
  [][OnWordWithSeparators =>
       LET target == stripSeparators(toUpperCase(Val(currentPuzzle).word))
           normalized == normalizeGuess(lastCall'.guess)
       IN /\ LettersOnlyComparison(target, normalized, Val(currentState),
                                   Val(lastResult'), Val(currentState'))
          /\ hasSeparator(normalized) =>
               /\ lastResult' = Some(Failure(LengthMismatch(Len(target))))
               /\ currentState' = currentState]_vars

\* What does hold: the comparisons use the letters-only form, and the word
\* submitted in its display form is refused with the length failure.
C27_LettersOnlyComparisons ==
  [][OnWordWithSeparators =>
       LET target == stripSeparators(toUpperCase(Val(currentPuzzle).word))
           normalized == normalizeGuess(lastCall'.guess)
       IN /\ LettersOnlyComparison(target, normalized, Val(currentState),
                                   Val(lastResult'), Val(currentState'))
          /\ normalized = toUpperCase(Val(currentPuzzle).word) =>
               /\ lastResult' = Some(Failure(LengthMismatch(Len(target))))
               /\ currentState' = currentState]_vars

\* The guess B-A on the word B-A A (letters BAA) has been accepted, compared
\* with the hyphen as a character, and recorded.
C27_Witness ==
  /\ lastCall.op = "submitGuess"
  /\ lastCall.guess = <<"B", "-", "A">>
  /\ currentPuzzle # Null
  /\ Val(currentPuzzle).word = <<"B", "-", "A", " ", "A">>
  /\ Val(lastResult).success
  /\ Val(lastResult).evaluation[2] = [letter |-> "-", status |-> "wrong", position |-> 1]
  /\ includes(Val(currentState).guesses, <<"B", "-", "A">>)
  /\ Val(currentState).cluesRevealed = 2

(***************************************************************************)
(* Streaks and the game mode                                               *)
(***************************************************************************)
\* C28: streaks belong to the daily challenge: a guess in quick-play mode,
\* a winning one included, leaves currentStreak and maxStreak as they
\* were.
C28_QuickPlayKeepsStreak ==
  [][(lastCall'.op = "submitGuess" /\ ~isDaily) =>
       /\ getStats(storage').currentStreak = getStats(storage).currentStreak
       /\ getStats(storage').maxStreak = getStats(storage).maxStreak]_vars

\* A quick-play puzzle has been won by a player who never completed a daily
\* puzzle, and the stored streak is 1.
C28_Witness ==
  /\ lastCall.op = "submitGuess"
  /\ ~isDaily
  /\ currentState # Null
  /\ Val(currentState).status = "won"
  /\ Val(lastResult).success
  /\ getCompletedDailies(storage) = <<>>
  /\ getStats(storage).won = 1
  /\ getStats(storage).currentStreak = 1
  /\ getStats(storage).maxStreak = 1

(***************************************************************************)
(* The guesses of an attempt                                               *)
(***************************************************************************)
GuessesWellFormed ==
  currentState # Null =>
    LET guesses == Val(currentState).guesses
        target == targetWordOf(Val(currentPuzzle))
    IN /\ \A i, j \in DOMAIN guesses : guesses[i] = guesses[j] => i = j
       /\ \A i \in DOMAIN guesses :
            /\ normalizeGuess(guesses[i]) = guesses[i]
            /\ Len(guesses[i]) = Len(target)
       /\ includes(guesses, target) <=> Val(currentState).status = "won"
       /\ Val(currentState).status = "won" => guesses[Len(guesses)] = target

GuessesOnlyAppended ==
  (currentState # Null /\ lastCall'.op \in {"submitGuess", "getWrongPositionLettersToShow"}) =>
    LET before == Val(currentState).guesses
        after == Val(currentState').guesses
    IN \/ after = before
       \/ /\ Len(after) = Len(before) + 1
          /\ SubSeq(after, 1, Len(before)) = before
          /\ after[Len(after)] = normalizeGuess(lastCall'.guess)

\* C29: in every reachable state of an attempt guesses holds pairwise
\* distinct normalized strings of the letters-only target length; it grows
\* only by appending at the end; the target is in guesses exactly when the
\* status is 'won', and is then the last entry.
C29_Guesses == []GuessesWellFormed /\ [][GuessesOnlyAppended]_vars

\* An attempt won with its third guess: two wrong guesses, then the target.
C29_Witness ==
  /\ lastCall.op = "submitGuess"
  /\ currentState # Null
  /\ Val(currentState).status = "won"
  /\ Len(Val(currentState).guesses) = 3
  /\ Val(currentState).guesses[3] = targetWordOf(Val(currentPuzzle))
  /\ ~includes(SubSeq(Val(currentState).guesses, 1, 2), targetWordOf(Val(currentPuzzle)))

(***************************************************************************)
(* The hints of an attempt                                                 *)
(***************************************************************************)
HintsSound ==
  currentState # Null =>
    LET state == Val(currentState)
        target == targetWordOf(Val(currentPuzzle))
        positions == state.correctPositions
        letters == ArrayFrom(state.wrongPositionLetters)
    IN /\ \A i, j \in DOMAIN positions : positions[i] = positions[j] => i = j
       /\ \A i \in DOMAIN positions : positions[i] \in 0..(Len(target) - 1)
       /\ Len(positions) <= Len(target)
       /\ \A i \in DOMAIN positions :
            \/ state.status = "won"
            \/ \E g \in DOMAIN state.guesses :
                 state.guesses[g][positions[i] + 1] = target[positions[i] + 1]
       /\ \A i \in DOMAIN letters : includes(target, letters[i])

HintsOnlyAccumulate ==
  (currentState # Null /\ lastCall'.op \in {"submitGuess", "getWrongPositionLettersToShow"}) =>
    LET before == Val(currentState)
        after == Val(currentState')
    IN /\ \A i \in DOMAIN before.correctPositions :
            includes(after.correctPositions, before.correctPositions[i])
       /\ \A i \in DOMAIN ArrayFrom(before.wrongPositionLetters) :
            includes(ArrayFrom(after.wrongPositionLetters),
                     ArrayFrom(before.wrongPositionLetters)[i])

\* C30: in every reachable state correctPositions holds distinct indices
\* within 0..L-1, each an exact match of some submitted guess (or the
\* attempt is won), and every letter of wrongPositionLetters occurs in the
\* target; neither collection loses an element during an attempt.
C30_Hints == []HintsSound /\ [][HintsOnlyAccumulate]_vars

\* After two wrong guesses on ABA, indices 0 and 1 are known from the first
\* guess and are still known after the second, which matched nowhere.
C30_Witness ==
  /\ lastCall.op = "submitGuess"
  /\ currentState # Null
  /\ Val(currentState).status = "in-progress"
  /\ Val(currentState).guesses = <<<<"A", "B", "C">>, <<"B", "A", "B">>>>
  /\ Val(currentState).correctPositions = <<0, 1>>
  /\ ArrayFrom(Val(currentState).wrongPositionLetters) = <<"B", "A">>

(***************************************************************************)
(* Revealed positions and the status                                       *)
(***************************************************************************)
AllRevealed ==
  {Val(currentState).correctPositions[i] : i \in DOMAIN Val(currentState).correctPositions}
    = 0..(Len(targetWordOf(Val(currentPuzzle))) - 1)

\* C31 as stated: correctPositions is the full index range 0..L-1 exactly
\* when the status is 'won'; while the attempt is in progress some position
\* is still unrevealed.
C31_FullRangeIffWon ==
  currentState # Null => (AllRevealed <=> Val(currentState).status = "won")

\* C31 as amended: a won attempt has the full range 0..L-1, in index order;
\* no single wrong guess matches every position, but the positions matched
\* by different wrong guesses can together cover the whole range while the
\* attempt is still in progress.
C31_WonHasFullRange ==
  currentState # Null =>
    LET state == Val(currentState)
        target == targetWordOf(Val(currentPuzzle))
    IN /\ state.status = "won" =>
            state.correctPositions = [i \in 1..Len(target) |-> i - 1]
       /\ state.status = "in-progress" =>
            \A g \in DOMAIN state.guesses :
              \E i \in 1..Len(target) : state.guesses[g][i] # target[i]

\* Target ABA, wrong guesses ABC and BAA: indices 0 and 1 from the first,
\* index 2 from the second, and the attempt is still in progress.
C31_Witness ==
  /\ lastCall.op = "submitGuess"
  /\ currentState # Null
  /\ Val(currentState).status = "in-progress"
  /\ Val(currentState).guesses = <<<<"A", "B", "C">>, <<"B", "A", "A">>>>
  /\ Val(currentState).correctPositions = <<0, 1, 2>>
  /\ ObjectValues(getRevealedLetters(currentPuzzle, currentState)) = <<"A", "B", "A">>

(***************************************************************************)
(* The web App over several days: startDailyMode, startQuickPlayMode with  *)
(* the past dailies of the day, guesses, reset, page loads and midnights.  *)
(* The player's clock is in UTC (zone 0), so the local calendar day of     *)
(* getTodayMidnight is the day of getDateString.                           *)
(***************************************************************************)
dailyPuzzles ==
  <<[id |-> "daily-001", category |-> "Countries", word |-> <<"A", "A">>],
    [id |-> "daily-002", category |-> "Movies", word |-> <<"A", "B">>]>>

getPastDailyPuzzlesBeforeIndex(pool, day, zone) ==
  SubSeq(pool, 1, getDailyPuzzleIndex(Len(pool), day, zone))

getPastDailyPuzzles(pool, day, zone) ==
  LET todayIndex == getDailyPuzzleIndex(Len(pool), day, zone)
      daysSinceLaunch == daysBetween(LAUNCH_DATE, getTodayMidnight(day, zone))
      others == SelectSeq([i \in 1..Len(pool) |-> i - 1], LAMBDA index : index # todayIndex)
  IN IF daysSinceLaunch >= Len(pool)
       THEN [k \in 1..Len(others) |-> pool[others[k] + 1]]
       ELSE SubSeq(pool, 1, todayIndex)

isValidStateAnyDate(savedState, day) == savedState # Null

isValidState(savedState, day) ==
  savedState # Null /\ Val(savedState).date = getDateString(day)

startDailyMode(pool, st, day) ==
  initialize(pool[getDailyPuzzleIndex(Len(pool), day, 0) + 1],
             IF isValidState(getDailyState(st), day) THEN getDailyState(st) ELSE Null,
             TRUE, st, day)

StartDailyMode ==
  /\ currentPuzzle' = Some(dailyPuzzles[getDailyPuzzleIndex(Len(dailyPuzzles), today, 0) + 1])
  /\ isDaily' = TRUE
  /\ currentState' = startDailyMode(dailyPuzzles, storage, today).state
  /\ storage' = startDailyMode(dailyPuzzles, storage, today).storage
  /\ lastCall' = [op |-> "startDailyMode",
                  saved |-> IF getDailyState(storage) = Null THEN Null
                            ELSE Some([date |-> Val(getDailyState(storage)).date,
                                       puzzleId |-> Val(getDailyState(storage)).puzzleId])]
  /\ lastResult' = currentState'
  /\ UNCHANGED today
  /\ UNCHANGED bridgeVars

isDailyCompleted(st, day) ==
  IF getDailyState(st) = Null THEN FALSE
  ELSE /\ Val(getDailyState(st)).date = getDateString(day)
       /\ Val(getDailyState(st)).status = "won"

MaxWebGames == 2

WebQuickPlay ==
  StartQuickPlayMode("random", DOMAIN CategoryFiles,
                     getPastDailyPuzzles(dailyPuzzles, today, 0))

WebGuess ==
  /\ getStats(storage).played < MaxWebGames
  /\ \E guess \in {<<"A", "A">>, <<"A", "B">>} : SubmitGuess(guess)

MaxWebDay == 2

WebMidnight ==
  /\ today < MaxWebDay
  /\ today' = today + 1
  /\ lastCall' = [op |-> "midnight"]
  /\ lastResult' = Null
  /\ UNCHANGED <<currentPuzzle, currentState, isDaily, storage>>
  /\ UNCHANGED bridgeVars

NextWeb ==
  \/ StartDailyMode
  \/ WebQuickPlay
  \/ WebGuess
  \/ Reset
  \/ WebMidnight

SpecWeb == Init /\ [][NextWeb]_vars

QuickPlayOperation ==
  \/ lastCall'.op = "startQuickPlayMode"
  \/ lastCall'.op \in {"submitGuess", "reset"} /\ ~isDaily

DailyOperation ==
  \/ lastCall'.op = "startDailyMode"
  \/ lastCall'.op \in {"submitGuess", "reset"} /\ isDaily

TodaysPuzzle == dailyPuzzles[getDailyPuzzleIndex(Len(dailyPuzzles), today, 0) + 1]

\* C33: startDailyMode restores the persisted daily slot only if its date is
\* today's date string and its puzzleId is the id of today's puzzle; an
\* attempt persisted on an earlier day is never restored, also when today's
\* puzzle has the same id, and the new day starts from a fresh attempt.
C33_StaleDailyNotRestored ==
  [][lastCall'.op = "startDailyMode" =>
       LET saved == getDailyState(storage)
           restorable == /\ saved # Null
                         /\ Val(saved).date = getDateString(today)
                         /\ Val(saved).puzzleId = TodaysPuzzle.id
       IN /\ currentPuzzle' = Some(TodaysPuzzle)
          /\ Val(currentState').date = getDateString(today)
          /\ Val(currentState').puzzleId = TodaysPuzzle.id
          /\ restorable =>
               /\ Val(currentState').guesses = Val(saved).guesses
               /\ Val(currentState').status = Val(saved).status
               /\ Val(currentState').cluesRevealed = Val(saved).cluesRevealed
               /\ storage' = storage
          /\ ~restorable =>
               /\ Val(currentState').guesses = <<>>
               /\ Val(currentState').status = "in-progress"
               /\ Val(currentState').cluesRevealed = 1
               /\ Val(currentState').correctPositions = <<>>
               /\ getDailyState(storage') =
                    Some([Val(currentState') EXCEPT !.wrongPositionLetters = ArrayFrom(@)])]_vars

\* Day 2 of a pool of two: today's puzzle is daily-001 again, the slot holds
\* the attempt on daily-001 of day 0 with a guess in it, and startDailyMode
\* has started a fresh attempt.
C33_Witness ==
  /\ lastCall.op = "startDailyMode"
  /\ today = 2
  /\ lastCall.saved = Some([date |-> 0, puzzleId |-> "daily-001"])
  /\ Val(currentPuzzle).id = "daily-001"
  /\ Val(currentState).guesses = <<>>
  /\ Val(currentState).date = 2
  /\ includes(getCompletedDailies(storage), "daily-001")

(***************************************************************************)
(* The day boundary of the web daily index                                 *)
(***************************************************************************)
\* C34: in every time zone the index of the epoch day is 0 and the index
\* advances by exactly 1 modulo totalPuzzles from each local calendar day to
\* the next.
C34_OneDayBoundary ==
  lastResult # Null =>
    LET n == lastCall.totalPuzzles
        index == Val(lastResult).web
    IN /\ lastCall.day = 0 => index = 0
       /\ getDailyPuzzleIndex(n, lastCall.day + 1, lastCall.zone) = (index + 1) % n

\* One hour ahead of UTC, pool of three: the day after the epoch day is
\* served index 0, which the epoch day was served too.
C34_Witness ==
  /\ lastResult # Null
  /\ lastCall.zone = 1
  /\ lastCall.day = 1
  /\ lastCall.totalPuzzles = 3
  /\ Val(lastResult).web = 0
  /\ getDailyPuzzleIndex(3, 0, 1) = 0

\* What does hold: from the epoch day on, in UTC and in the zones behind
\* UTC, the index is 0 on the epoch day and advances by 1 modulo
\* totalPuzzles each day.
C34_AdvancesFromEpochWestOfUTC ==
  (lastResult # Null /\ lastCall.day >= 0 /\ lastCall.zone <= 0) =>
    LET n == lastCall.totalPuzzles
        index == Val(lastResult).web
    IN /\ lastCall.day = 0 => index = 0
       /\ getDailyPuzzleIndex(n, lastCall.day + 1, lastCall.zone) = (index + 1) % n

(***************************************************************************)
(* Past dailies in the quick-play pool                                     *)
(***************************************************************************)
DailyIds == {dailyPuzzles[i].id : i \in DOMAIN dailyPuzzles}

PlayedIds == {"qp-countries-001", "qp-countries-002"}

BothAddPlayedPuzzle(puzzleId) ==
  /\ writesInFlight < MaxQueue
  /\ storage' = addPlayedPuzzle(storage, puzzleId)
  /\ cache' = addPlayedPuzzle(BridgeStore, puzzleId).cache
  /\ toDevvit' = addPlayedPuzzle(BridgeStore, puzzleId).posted
  /\ written' = [written EXCEPT ![PLAYED_PUZZLES] = cache'[PLAYED_PUZZLES]]
  /\ lastCall' = [op |-> "addPlayedPuzzle", puzzleId |-> puzzleId]
  /\ lastResult' = Null
  /\ bridgeResult' = Null
  /\ UNCHANGED <<currentPuzzle, currentState, isDaily, today, pendingReads, toWebview,
                 redis, bridgeState, handlers, reddit, sharing>>

BothAddCompletedDaily(puzzleId) ==
  /\ writesInFlight < MaxQueue
  /\ storage' = addCompletedDaily(storage, puzzleId)
  /\ cache' = addCompletedDaily(BridgeStore, puzzleId).cache
  /\ toDevvit' = addCompletedDaily(BridgeStore, puzzleId).posted
  /\ written' = [written EXCEPT ![COMPLETED_DAILIES] = cache'[COMPLETED_DAILIES]]
  /\ lastCall' = [op |-> "addCompletedDaily", puzzleId |-> puzzleId]
  /\ lastResult' = Null
  /\ bridgeResult' = Null
  /\ UNCHANGED <<currentPuzzle, currentState, isDaily, today, pendingReads, toWebview,
                 redis, bridgeState, handlers, reddit, sharing>>

AddPlayed == \E puzzleId \in PlayedIds : BothAddPlayedPuzzle(puzzleId)

AddCompleted == BothAddCompletedDaily("daily-001")

NextIdSets ==
  \/ AddPlayed
  \/ AddCompleted
  \/ PrefetchAll
  \/ DevvitOnMessage
  \/ BridgeListener
  \/ BothClearAll

SpecIdSets == Init /\ [][NextIdSets]_vars

NoDuplicate(list) == \A i, j \in DOMAIN list : list[i] = list[j] => i = j

AddsOnce(st, stAfter) ==
  /\ NoDuplicate(getPlayedPuzzles(stAfter))
  /\ NoDuplicate(getCompletedDailies(stAfter))
  /\ (lastCall'.op = "addPlayedPuzzle"
        /\ includes(getPlayedPuzzles(st), lastCall'.puzzleId)) => stAfter = st
  /\ (lastCall'.op = "addCompletedDaily"
        /\ includes(getCompletedDailies(st), lastCall'.puzzleId)) => stAfter = st
  /\ lastCall'.op = "addPlayedPuzzle" =>
       includes(getPlayedPuzzles(stAfter), lastCall'.puzzleId)
  /\ lastCall'.op = "addCompletedDaily" =>
       includes(getCompletedDailies(stAfter), lastCall'.puzzleId)

KeepsIds(st, stAfter) ==
  lastCall'.op # "clearAll" =>
    /\ IdsOf(getPlayedPuzzles(st)) \subseteq IdsOf(getPlayedPuzzles(stAfter))
    /\ IdsOf(getCompletedDailies(st)) \subseteq IdsOf(getCompletedDailies(stAfter))

\* C36: in both stores addPlayedPuzzle and addCompletedDaily are idempotent
\* (an id already present changes nothing and writes nothing), the lists
\* never hold an id twice, and nothing but clearAll removes an id.
C36_IdSetsAppendOnly ==
  [][/\ AddsOnce(storage, storage')
     /\ AddsOnce(BridgeStore, [cache |-> cache', posted |-> toDevvit'])
     /\ KeepsIds(storage, storage')
     /\ KeepsIds(BridgeStore, [cache |-> cache', posted |-> toDevvit'])]_vars

\* What does hold: all of it for the local store, and for the bridge store
\* everything but the ids kept across a gameStateResponse.
C36_AppendOnlyButForResponses ==
  [][/\ AddsOnce(storage, storage')
     /\ AddsOnce(BridgeStore, [cache |-> cache', posted |-> toDevvit'])
     /\ KeepsIds(storage, storage')
     /\ lastCall'.op # "message" =>
          KeepsIds(BridgeStore, [cache |-> cache', posted |-> toDevvit'])]_vars

\* The reply to a prefetch, taken before the second id was added, has been
\* delivered after it: the mirror lists one id, the last list written by
\* the session two.
C36_Witness ==
  /\ lastCall.op = "message"
  /\ lastCall.type = "gameStateResponse"
  /\ lastCall.key = PLAYED_PUZZLES
  /\ written[PLAYED_PUZZLES] # Null
  /\ Len(Val(written[PLAYED_PUZZLES])) = 2
  /\ Len(getPlayedPuzzles(BridgeStore)) = 1
  /\ Len(getPlayedPuzzles(storage)) = 2

(***************************************************************************)
(* Wrong-position letters as rendered by the two views                     *)
(***************************************************************************)
AfterWrongGuess ==
  /\ lastCall.op = "submitGuess"
  /\ lastResult # Null
  /\ Val(lastResult).success
  /\ ~Val(lastResult).isCorrect

\* C37: after every successful non-winning submitGuess the wrongPositionLetters
\* list of the result (rendered by updateAfterGuess) holds the same letters as
\* getWrongPositionLettersToShow() for that state (rendered by renderGame).
C37_SameLettersInBothViews ==
  AfterWrongGuess =>
    IdsOf(Val(lastResult).wrongPositionLetters)
      = IdsOf(getWrongPositionLettersToShow(currentPuzzle, currentState))

\* What does hold: renderGame shows a sublist of what updateAfterGuess shows.
C37_ShownAfterReloadWereShown ==
  AfterWrongGuess =>
    IdsOf(getWrongPositionLettersToShow(currentPuzzle, currentState))
      \subseteq IdsOf(Val(lastResult).wrongPositionLetters)

\* Target ABA after BAB and ABC: the result of ABC lists B and A, while
\* getWrongPositionLettersToShow leaves B out, its one occurrence revealed.
C37_Witness ==
  /\ AfterWrongGuess
  /\ Val(currentState).guesses = <<<<"B", "A", "B">>, <<"A", "B", "C">>>>
  /\ Val(lastResult).wrongPositionLetters = <<"B", "A">>
  /\ getWrongPositionLettersToShow(currentPuzzle, currentState) = <<"A">>

(***************************************************************************)
(* The Reddit deployment over several days: the player wins the post's     *)
(* puzzle, opens the webview again on the same or on a later day and wins  *)
(* again, and Devvit keeps the player's aggregate under userstats:<user>.  *)
(***************************************************************************)
NextStreak ==
  \/ OpenWebview
  \/ TypeGuess
  \/ DevvitOnMessage
  \/ OnDevvitMessage
  \/ WebMidnight

SpecStreak == Init /\ [][NextStreak]_vars

HandlesSaveScore == lastCall'.op = "onMessage" /\ lastCall'.type = "saveScore"

currentStreakOf(rds) ==
  IF rds.userstats = Null THEN 0 ELSE JSONParse(Val(rds.userstats)).currentStreak

\* The day of the player's previous win, as the score record has it.
completedAtOf(rds) == JSONParse(Val(rds.score)).completedAt

\* C38: the aggregate kept by the saveScore handler and pushed to the webview
\* counts currentStreak as consecutive calendar days with a win: a second win
\* on the same day leaves it unchanged, a win on the following day adds 1, a
\* win after a gap of more than one day resets it to 1.
C38_StreakCountsCalendarDays ==
  [][/\ HandlesSaveScore =>
          /\ toWebview' # <<>>
          /\ toWebview'[Len(toWebview')].type = "userStats"
          /\ toWebview'[Len(toWebview')].data.currentStreak = currentStreakOf(redis')
          /\ redis.score = Null => currentStreakOf(redis') = 1
          /\ redis.score # Null =>
               currentStreakOf(redis')
                 = IF completedAtOf(redis) = today THEN currentStreakOf(redis)
                   ELSE IF completedAtOf(redis) = today - 1 THEN currentStreakOf(redis) + 1
                   ELSE 1
     /\ (lastCall'.op = "message" /\ lastCall'.type = "userStats") =>
          getStats([cache |-> cache', posted |-> toDevvit']).currentStreak
            = Head(toWebview).data.currentStreak]_vars

\* What does hold: every saveScore adds 1 to currentStreak, whatever the day,
\* and the webview shows the number it is sent.
C38_StreakCountsSaveScores ==
  [][/\ HandlesSaveScore =>
          /\ toWebview'[Len(toWebview')].type = "userStats"
          /\ toWebview'[Len(toWebview')].data.currentStreak = currentStreakOf(redis')
          /\ currentStreakOf(redis') = currentStreakOf(redis) + 1
     /\ (lastCall'.op = "message" /\ lastCall'.type = "userStats") =>
          getStats([cache |-> cache', posted |-> toDevvit']).currentStreak
            = Head(toWebview).data.currentStreak]_vars

\* Two wins on day 0: the second saveScore has been handled and the streak
\* pushed to the webview is 2.
C38_Witness ==
  /\ lastCall.op = "onMessage"
  /\ lastCall.type = "saveScore"
  /\ today = 0
  /\ redis.playcount = 2
  /\ currentStreakOf(redis) = 2
  /\ toWebview[Len(toWebview)].data.currentStreak = 2

\* A win on day 0 and the next on day 2: the streak is 2 as well.
C38_WitnessGap ==
  /\ lastCall.op = "onMessage"
  /\ lastCall.type = "saveScore"
  /\ today = 2
  /\ completedAtOf(redis) = 2
  /\ redis.playcount = 2
  /\ currentStreakOf(redis) = 2

(***************************************************************************)
(* The daily schedule of the Devvit app: the 'daily-puzzle' scheduler job  *)
(* and the 'Start Daily CluesWord' / 'Stop Daily CluesWord' menu actions.  *)
(* Each invocation is an async function; handlers lists the invocations    *)
(* made so far, each with the await it is suspended at (pc) and its local  *)
(* constants.  A step performs the awaited operation and runs the handler  *)
(* up to its next await; steps of different invocations interleave.        *)
(* reddit holds the posts submitted (the date each was made for), the      *)
(* scheduler's jobs and the number of jobs ever scheduled.                 *)
(***************************************************************************)
MaxInvocations == 3

Done(h) == [name |-> h.name, pc |-> "done"]

Running(i) == i \in DOMAIN handlers /\ handlers[i].pc # "done"

Invoke(name, pc) ==
  /\ Len(handlers) < MaxInvocations
  /\ handlers' = Append(handlers, [name |-> name, pc |-> pc])
  /\ lastCall' = [op |-> name]
  /\ UNCHANGED <<gameVars, lastResult, cache, pendingReads, toDevvit, toWebview, redis,
                 bridgeState, bridgeResult, sharing, written, reddit>>

\* The scheduler runs a job that is scheduled.
SchedulerRun == reddit.jobs # {} /\ Invoke("daily-puzzle", "getSubreddit")

StartMenu == Invoke("start", "getJobId")

StopMenu == Invoke("stop", "getJobId")

HandlerStep(i, h, rds, rdt) ==
  /\ handlers' = [handlers EXCEPT ![i] = h]
  /\ redis' = rds
  /\ reddit' = rdt
  /\ lastCall' = [op |-> "await", name |-> handlers[i].name, pc |-> handlers[i].pc]
  /\ UNCHANGED <<gameVars, lastResult, cache, pendingReads, toDevvit, toWebview,
                 bridgeState, bridgeResult, sharing, written>>

\* daily-puzzle: the subreddit is read; without one the job returns.
GetSubreddit(i) ==
  /\ Running(i)
  /\ handlers[i].pc = "getSubreddit"
  /\ HandlerStep(i, IF redis.dailySchedule.subreddit = Null THEN Done(handlers[i])
                    ELSE [name |-> handlers[i].name, pc |-> "getLastDate",
                          today |-> getDateString(today)],
                 redis, reddit)

\* Start: nothing is done when a job id is stored.
StartGetJobId(i) ==
  /\ Running(i)
  /\ handlers[i].name = "start"
  /\ handlers[i].pc = "getJobId"
  /\ HandlerStep(i, IF redis.dailySchedule.jobId # Null THEN Done(handlers[i])
                    ELSE [name |-> "start", pc |-> "setSubreddit"],
                 redis, reddit)

SetSubreddit(i) ==
  /\ Running(i)
  /\ handlers[i].pc = "setSubreddit"
  /\ HandlerStep(i, [name |-> "start", pc |-> "runJob"],
                 [redis EXCEPT !.dailySchedule.subreddit = Some("cluesword")], reddit)

RunJob(i) ==
  /\ Running(i)
  /\ handlers[i].pc = "runJob"
  /\ HandlerStep(i, [name |-> "start", pc |-> "setJobId", jobId |-> reddit.scheduled + 1],
                 redis,
                 [reddit EXCEPT !.scheduled = @ + 1, !.jobs = @ \cup {reddit.scheduled + 1}])

SetJobId(i) ==
  /\ Running(i)
  /\ handlers[i].pc = "setJobId"
  /\ HandlerStep(i, [name |-> "start", pc |-> "getLastDate", today |-> getDateString(today)],
                 [redis EXCEPT !.dailySchedule.jobId = Some(handlers[i].jobId)], reddit)

\* Job and Start alike: no post when the marker is the handler's date.
GetLastDate(i) ==
  /\ Running(i)
  /\ handlers[i].pc = "getLastDate"
  /\ HandlerStep(i, IF redis.dailySchedule.lastDate = Some(handlers[i].today)
                      THEN Done(handlers[i])
                      ELSE [handlers[i] EXCEPT !.pc = "setLastDate"],
                 redis, reddit)

SetLastDate(i) ==
  /\ Running(i)
  /\ handlers[i].pc = "setLastDate"
  /\ HandlerStep(i, [handlers[i] EXCEPT !.pc = "submitPost"],
                 [redis EXCEPT !.dailySchedule.lastDate = Some(handlers[i].today)], reddit)

\* The post is submitted; the puzzle and the play count of the new post are
\* stored under keys of their own.
SubmitPost(i) ==
  /\ Running(i)
  /\ handlers[i].pc = "submitPost"
  /\ HandlerStep(i, Done(handlers[i]), redis,
                 [reddit EXCEPT !.posts = Append(@, handlers[i].today)])

\* Stop: nothing is done without a stored job id.
StopGetJobId(i) ==
  /\ Running(i)
  /\ handlers[i].name = "stop"
  /\ handlers[i].pc = "getJobId"
  /\ HandlerStep(i, IF redis.dailySchedule.jobId = Null THEN Done(handlers[i])
                    ELSE [name |-> "stop", pc |-> "cancelJob",
                          jobId |-> Val(redis.dailySchedule.jobId)],
                 redis, reddit)

CancelJob(i) ==
  /\ Running(i)
  /\ handlers[i].pc = "cancelJob"
  /\ HandlerStep(i, [handlers[i] EXCEPT !.pc = "delJobId"], redis,
                 [reddit EXCEPT !.jobs = @ \ {handlers[i].jobId}])

DelJobId(i) ==
  /\ Running(i)
  /\ handlers[i].pc = "delJobId"
  /\ HandlerStep(i, [name |-> "stop", pc |-> "delLastDate"],
                 [redis EXCEPT !.dailySchedule.jobId = Null], reddit)

DelLastDate(i) ==
  /\ Running(i)
  /\ handlers[i].pc = "delLastDate"
  /\ HandlerStep(i, Done(handlers[i]),
                 [redis EXCEPT !.dailySchedule.lastDate = Null], reddit)

NextSchedule ==
  \/ SchedulerRun
  \/ StartMenu
  \/ StopMenu
  \/ \E i \in 1..MaxInvocations : GetSubreddit(i)
  \/ \E i \in 1..MaxInvocations : StartGetJobId(i)
  \/ \E i \in 1..MaxInvocations : SetSubreddit(i)
  \/ \E i \in 1..MaxInvocations : RunJob(i)
  \/ \E i \in 1..MaxInvocations : SetJobId(i)
  \/ \E i \in 1..MaxInvocations : GetLastDate(i)
  \/ \E i \in 1..MaxInvocations : SetLastDate(i)
  \/ \E i \in 1..MaxInvocations : SubmitPost(i)
  \/ \E i \in 1..MaxInvocations : StopGetJobId(i)
  \/ \E i \in 1..MaxInvocations : CancelJob(i)
  \/ \E i \in 1..MaxInvocations : DelJobId(i)
  \/ \E i \in 1..MaxInvocations : DelLastDate(i)
  \/ WebMidnight

SpecSchedule == Init /\ [][NextSchedule]_vars

\* C39: after any sequence and interleaving of scheduler runs and Start /
\* Stop menu actions, at most one daily puzzle post is submitted per
\* calendar date.
C39_OnePostPerDate == NoDuplicate(reddit.posts)

\* Start and the first run of the job it scheduled, and no Stop at all: both
\* read the marker before either wrote it, and both posted for day 0.
C39_Witness ==
  /\ reddit.posts = <<0, 0>>
  /\ \A i \in DOMAIN handlers : handlers[i].name # "stop"
  /\ reddit.scheduled = 1
  /\ \A i \in DOMAIN handlers : handlers[i].pc = "done"

\* Start, Stop, Start, one after the other on day 0: Stop deleted the
\* marker and the second Start posted again.
C39_WitnessStop ==
  /\ reddit.posts = <<0, 0>>
  /\ Len(handlers) = 3
  /\ handlers[1] = [name |-> "start", pc |-> "done"]
  /\ handlers[2] = [name |-> "stop", pc |-> "done"]
  /\ handlers[3] = [name |-> "start", pc |-> "done"]

(***************************************************************************)
(* saveScore messages of one post from several players, each handled by an *)
(* invocation of the onMessage handler that is suspended at its awaits.    *)
(* The keys of the post (playcount, puzzlestats) are shared; redis.score,  *)
(* redis.leaderboard and redis.userstats are the keys of Player, and a     *)
(* handler working for another player leaves them alone.                   *)
(***************************************************************************)
Player == "player-1"

Players == {Player, "player-2"}

SaveScoreData ==
  {[postId |-> PostId, score |-> 100, cluesRevealed |-> 1, guesses |-> <<<<"A", "B">>>>],
   [postId |-> PostId, score |-> 10, cluesRevealed |-> 3,
    guesses |-> <<<<"A", "A">>, <<"B", "A">>, <<"A", "B">>>>]}

OnSaveScore ==
  /\ Len(handlers) < MaxInvocations
  /\ \E userId \in Players, data \in SaveScoreData :
       handlers' = Append(handlers, [name |-> "saveScore", pc |-> "setScore",
                                     userId |-> userId, data |-> data])
  /\ lastCall' = [op |-> "saveScore"]
  /\ UNCHANGED <<gameVars, lastResult, cache, pendingReads, toDevvit, toWebview, redis,
                 bridgeState, bridgeResult, sharing, written, reddit>>

SetScore(i) ==
  /\ Running(i)
  /\ handlers[i].pc = "setScore"
  /\ HandlerStep(i, [handlers[i] EXCEPT !.pc = "getPlaycount"],
                 IF handlers[i].userId = Player
                   THEN [redis EXCEPT !.score =
                           Some(JSONStringify([score |-> handlers[i].data.score,
                                               cluesRevealed |-> handlers[i].data.cluesRevealed,
                                               guesses |-> handlers[i].data.guesses,
                                               completedAt |-> today]))]
                   ELSE redis,
                 reddit)

GetPlaycount(i) ==
  /\ Running(i)
  /\ handlers[i].pc = "getPlaycount"
  /\ HandlerStep(i, [name |-> "saveScore", pc |-> "setPlaycount",
                     userId |-> handlers[i].userId, data |-> handlers[i].data,
                     current |-> redis.playcount],
                 redis, reddit)

SetPlaycount(i) ==
  /\ Running(i)
  /\ handlers[i].pc = "setPlaycount"
  /\ HandlerStep(i, [name |-> "saveScore", pc |-> "getPuzzleStats",
                     userId |-> handlers[i].userId, data |-> handlers[i].data],
                 [redis EXCEPT !.playcount = handlers[i].current + 1], reddit)

GetPuzzleStats(i) ==
  /\ Running(i)
  /\ handlers[i].pc = "getPuzzleStats"
  /\ HandlerStep(i, [name |-> "saveScore", pc |-> "setPuzzleStats",
                     userId |-> handlers[i].userId, data |-> handlers[i].data,
                     rawStats |-> redis.puzzlestats],
                 redis, reddit)

SetPuzzleStats(i) ==
  /\ Running(i)
  /\ handlers[i].pc = "setPuzzleStats"
  /\ HandlerStep(i, [name |-> "saveScore", pc |-> "zAdd",
                     userId |-> handlers[i].userId, data |-> handlers[i].data],
                 [redis EXCEPT !.puzzlestats =
                    Some(JSONStringify(puzzleStatsAfter([puzzlestats |-> handlers[i].rawStats],
                                                        handlers[i].data)))],
                 reddit)

ZAdd(i) ==
  /\ Running(i)
  /\ handlers[i].pc = "zAdd"
  /\ HandlerStep(i, [handlers[i] EXCEPT !.pc = "getUserStats"],
                 IF handlers[i].userId = Player
                   THEN [redis EXCEPT !.leaderboard = Some(handlers[i].data.score)]
                   ELSE redis,
                 reddit)

GetUserStats(i) ==
  /\ Running(i)
  /\ handlers[i].pc = "getUserStats"
  /\ HandlerStep(i, [name |-> "saveScore", pc |-> "setUserStats",
                     userId |-> handlers[i].userId, data |-> handlers[i].data,
                     rawUserStats |-> IF handlers[i].userId = Player
                                        THEN redis.userstats ELSE Null],
                 redis, reddit)

\* The last write, and the userStats message to the webview of the player.
SetUserStats(i) ==
  /\ Running(i)
  /\ handlers[i].pc = "setUserStats"
  /\ LET userStats == userStatsAfter([userstats |-> handlers[i].rawUserStats],
                                     handlers[i].data)
     IN /\ redis' = IF handlers[i].userId = Player
                      THEN [redis EXCEPT !.userstats = Some(JSONStringify(userStats))]
                      ELSE redis
        /\ toWebview' = IF handlers[i].userId = Player
                          THEN Append(toWebview, [type |-> "userStats", data |-> userStats])
                          ELSE toWebview
  /\ handlers' = [handlers EXCEPT ![i] = Done(handlers[i])]
  /\ lastCall' = [op |-> "await", name |-> "saveScore", pc |-> "setUserStats"]
  /\ UNCHANGED <<gameVars, lastResult, cache, pendingReads, toDevvit,
                 bridgeState, bridgeResult, sharing, written, reddit>>

NextScores ==
  \/ OnSaveScore
  \/ \E i \in 1..MaxInvocations : SetScore(i)
  \/ \E i \in 1..MaxInvocations : GetPlaycount(i)
  \/ \E i \in 1..MaxInvocations : SetPlaycount(i)
  \/ \E i \in 1..MaxInvocations : GetPuzzleStats(i)
  \/ \E i \in 1..MaxInvocations : SetPuzzleStats(i)
  \/ \E i \in 1..MaxInvocations : ZAdd(i)
  \/ \E i \in 1..MaxInvocations : GetUserStats(i)
  \/ \E i \in 1..MaxInvocations : SetUserStats(i)

SpecScores == Init /\ [][NextScores]_vars

AllHandled == handlers # <<>> /\ \A i \in DOMAIN handlers : handlers[i].pc = "done"

solvesOf(rds) == IF rds.puzzlestats = Null THEN 0 ELSE JSONParse(Val(rds.puzzlestats)).solves

\* C40: when saveScore messages of one post are handled concurrently, the
\* play count and the solves counter of the post both end up increased by
\* the number of messages handled: no increment is lost.
C40_NoIncrementLost ==
  AllHandled => redis.playcount = Len(handlers) /\ solvesOf(redis) = Len(handlers)

\* What does hold: each counter ends between 1 and the number of messages.
C40_SomeIncrementKept ==
  AllHandled => /\ redis.playcount \in 1..Len(handlers)
                /\ solvesOf(redis) \in 1..Len(handlers)

\* Two messages handled: both handlers read the play count 0 and
\* the missing puzzlestats before either wrote, and both counters are 1.
C40_Witness ==
  /\ AllHandled
  /\ Len(handlers) = 2
  /\ redis.playcount = 1
  /\ solvesOf(redis) = 1

====
